---- MODULE Spec2Model ----
(***************************************************************************)
(* A model of the ai_defender_bot protection engine: the spam detector     *)
(* (modules/anti_spam.py), the raid detector and its lockdown gate         *)
(* (modules/anti_raid.py), the nuke detector (modules/anti_nuke.py) and    *)
(* the backup store (utils/backup.py, with the table of main.py).          *)
(*                                                                         *)
(* Every platform call (send, kick, ban, edit, create_role, ...) and every *)
(* database statement is fallible: its outcome is an input of the action   *)
(* that issues it.  Handlers are asyncio coroutines: a handler runs        *)
(* atomically up to an await at which the model lets other handlers run    *)
(* (the warning send, the timed mute, the lockdown activation, the release *)
(* timer); the remaining awaits are taken within the step that reaches     *)
(* them.  The clock `now` stands for time.time(); pending asyncio.sleep    *)
(* timers are urgent: the clock never passes a due timer.                  *)
(***************************************************************************)
EXTENDS Integers, Sequences, FiniteSets, Bags

(* ------------------------------ bounds -------------------------------- *)
StartTime == 1000     \* time.time() at start-up (any value above the cooldown)
MaxTicks == 2         \* clock advances per behaviour
MaxMsgs == 6          \* message events per behaviour
MaxFloods == 2        \* of which carry a mention flood
MaxInflight == 2      \* suspended handlers of one kind per (guild, user)
MaxJoins == 11        \* member-join events per guild and behaviour
MaxSuspects == 1      \* joins per behaviour by accounts that fail the screen
MaxInvites == 2       \* outstanding invites of a guild at a lockdown activation
MaxRaidMsgs == 2      \* message events met by the raid detector per behaviour
MaxMembers == 2       \* joins per guild in the behaviours of the suspect records
MaxIsoEvents == 2     \* events other than joins in the two-tenant behaviours
InitChannels == 4     \* channels of a guild at start-up
InitRoles == 5        \* roles of a guild at start-up, @everyone included
MaxRoles == 10        \* roles a guild can hold: beyond, create_role fails
MaxDeletes == 6       \* channel and role deletion events per behaviour
MaxUpdates == 3       \* member update events per behaviour
MaxBackups == 3       \* backup_guild calls per behaviour
MaxRestores == 2      \* restore_guild calls per behaviour
MaxCycles == 3        \* iterations of the watchdog's monitoring loop per behaviour

Guilds == {1, 2}
Users == {1, 2}

\* outcome of one platform call: discord.Forbidden, or any other exception
Outcomes == {"ok", "forbidden", "error"}
\* outcome of one bot.db.execute
DbOutcomes == {"ok", "error"}

(* --------------------------- configuration ---------------------------- *)
message_threshold == 5
time_window == 10
mention_threshold == 5
duration == 300
WARN_COOLDOWN == 300
Punishments == {"mute", "kick", "ban"}
join_threshold == 10
join_window == 60
config_verification_level == 1
LOCKDOWN_SECONDS == 3600
SUSPICIOUS_AGE == 86400
\* config.get('action', 'kick'); any other string selects the direct warning
RaidActions == {"kick", "ban", "timeout", "warn"}
max_channel_deletes == 3
max_role_deletes == 3
DAMAGE_THRESHOLD == 3
ESCALATION_TOLERANCE == 1
RAID_MENTIONS == 3
REPETITIVE_LENGTH == 50
CLEANUP_AGE == 86400
OUTAGE_RETRIES == 3
INCIDENT_COOLDOWN == 300

VARIABLES
    now,               \* time.time()
    ticks,             \* clock advances so far
    \* ---- AntiSpamModule
    punishment,        \* config['punishment']
    message_history,   \* [guild][user] -> list of timestamps
    repeat_offenders,  \* [guild][user] -> count
    user_last_warn,    \* [guild][user] -> timestamp, 0 when absent
    warn_inflight,     \* [guild][user] -> handlers awaiting channel.send
    mute_tasks,        \* [guild][user] -> due times of handlers in asyncio.sleep(duration)
    \* ---- the platform, as the spam detector meets it
    msgs,              \* message events delivered so far
    floods,            \* message events with a mention flood so far
    recent_feed,       \* [guild][user] -> arrival times of the message events of the
                       \*   last time_window seconds, kept by the clock
    spam_obs,          \* what process_message did with the latest message event
    cleanup_obs,       \* the time of the latest pass of _periodic_cleanup that removed
                       \*   timestamps, 0: none, and how many it removed
    verdict_obs,       \* the mentions of the latest message event and the reasons
                       \*   process_message called _take_action with for it
    \* ---- AntiRaidModule
    raid_action,       \* config.get('action', 'kick')
    join_times,        \* [guild] -> dict user -> timestamp
    recent_joins,      \* [guild] -> set of users
    suspected_raiders, \* [guild] -> set of users
    lockdown_mode,     \* set of guilds
    activating,        \* _activate_lockdown coroutines awaiting guild.edit
    release_tasks,     \* _disable_lockdown tasks in asyncio.sleep(3600)
    \* ---- the platform, as the raid detector meets it
    verification_level,\* [guild] -> guild.verification_level.value
    joins,             \* [guild] -> member-join events delivered so far
    join_feed,         \* [guild] -> arrival times of the join events of the last
                       \*   join_window seconds that met the guild unlocked
    suspects,          \* join events by accounts failing the screen so far
    activated_at,      \* [guild] -> time of the latest lockdown activation
    activations,       \* [guild] -> runs of the activation side effects
    raid_obs,          \* what the raid detector did with the latest event
    raid_msgs,         \* message events delivered to the raid detector so far
    suspect_since,     \* [guild] -> dict user -> time the suspect record was made
    swept_at,          \* time of the latest pass of the raid detector's sweep, 0: none
    lockdown_obs,      \* what the latest _activate_lockdown did after guild.edit
    \* ---- AntiNukeModule
    channel_deletions, \* [guild][user] -> count
    role_deletions,    \* [guild][user] -> count
    admin_changes,     \* [guild][user] -> count
    \* ---- BackupManager and the server_backups table
    server_backups,    \* set of rows [server_id, roles, timestamp]
    \* ---- the platform, as the nuke detector and the backup store meet it
    guild_channels,    \* [guild] -> len(guild.channels)
    guild_roles,       \* [guild] -> ids of guild.roles; 1 is @everyone
    audit_channel_delete, \* [guild] -> actor of the latest channel_delete audit entry, 0: none
    audit_role_delete, \* [guild] -> actor of the latest role_delete audit entry, 0: none
    next_role_id,      \* the id the platform gives the next created role
    deletes,           \* channel and role deletion events so far
    updates,           \* member update events so far
    backups,           \* backup_guild calls so far
    snapshots_ok,      \* [guild] -> backup_guild calls that returned True
    persisted,         \* <<server_id, timestamp>> of every row an INSERT stored
    sweep_obs,         \* what the latest backup_all_guilds sweep did
    restores,          \* restore_guild calls so far
    nuke_obs,          \* what the nuke detector did with the latest deletion event
    restore_obs,       \* what the latest restore_guild call did
    \* ---- WatchdogModule
    wd_pc,             \* where _monitor_system stands
    retries,           \* the local of _handle_network_outage
    last_incident,     \* self.last_incident, 0 when None
    closed,            \* bot.is_closed()
    cycles,            \* iterations of the monitoring loop begun so far
    outage_obs,        \* the re-checks of the latest outage and the bot.close() calls
    \* ---- moderation_logs table
    mod_logs           \* bag of rows <<server_id, user_id, action>>

spamVars == <<punishment, message_history, repeat_offenders, user_last_warn,
              warn_inflight, mute_tasks, msgs, floods, recent_feed, spam_obs,
              verdict_obs, cleanup_obs>>
raidVars == <<raid_action, join_times, recent_joins, suspected_raiders, lockdown_mode,
              activating, release_tasks, verification_level, joins, join_feed, suspects,
              activated_at, activations, raid_obs, raid_msgs, suspect_since, swept_at,
              lockdown_obs>>
nukeVars == <<channel_deletions, role_deletions, admin_changes, server_backups,
              guild_channels, guild_roles, audit_channel_delete, audit_role_delete,
              next_role_id, deletes, updates, backups, snapshots_ok, persisted, sweep_obs,
              restores,
              nuke_obs, restore_obs>>
wdVars == <<wd_pc, retries, last_incident, closed, cycles, outage_obs>>
vars == <<now, ticks, spamVars, raidVars, nukeVars, wdVars, mod_logs>>

(* ------------------------------ helpers ------------------------------- *)
\* a variant that keys the counter by the account alone
\* a variant that starts a count anew once it has passed 3
Bump_starting_anew(f, g, u) == [f EXCEPT ![g][u] = IF @ > 3 THEN 1 ELSE @ + 1]

Bump_any_guild(f, g, u) == [h \in DOMAIN f |-> [f[h] EXCEPT ![u] = @ + 1]]

Bump(f, g, u) == [f EXCEPT ![g][u] = @ + 1]

\* INSERT INTO moderation_logs ...: one more row, when the statement succeeds
InsertLog(logs, g, u, action, db) ==
    IF db = "ok" THEN logs (+) SetToBag({<<g, u, action>>}) ELSE logs

\* a variant that takes the configured level whatever the guild's level is
Max_second(a, b) == b

Max(a, b) == IF a >= b THEN a ELSE b

(* --------------------------- AntiSpamModule --------------------------- *)
\* a variant that forgets to drop the old timestamps
PruneWindow_keep_all(messages, current_time, window) == messages

\* the list comprehension of _check_message_frequency
PruneWindow(messages, current_time, window) ==
    SelectSeq(messages, LAMBDA m : current_time - m <= window)

\* a variant that wants the threshold exceeded, not reached
check_message_frequency_exceeds(messages) == Len(messages) > message_threshold

\* the return value of _check_message_frequency, on the pruned list
check_message_frequency(messages) == Len(messages) >= message_threshold

check_duplicate_content == FALSE

check_mention_spam(mentions) == mentions >= mention_threshold

\* the reasons of the three checks, in the order process_message makes them
Reasons == <<"Excessive message frequency", "Repeated message content", "Mention spam">>

hits(messages, mentions) ==
    <<check_message_frequency(messages), check_duplicate_content,
      check_mention_spam(mentions)>>

\* a variant that issues a Verdict for every check that hits
verdicts_every_hit(messages, mentions) ==
    LET h == hits(messages, mentions)
        pick(i) == IF h[i] THEN <<Reasons[i]>> ELSE <<>>
    IN pick(1) \o pick(2) \o pick(3)

\* the reasons process_message calls _take_action with for one message: each
\* check that hits is followed by return True
verdicts(messages, mentions) ==
    LET h == hits(messages, mentions)
    IN IF h[1] THEN <<Reasons[1]>>
       ELSE IF h[2] THEN <<Reasons[2]>>
       ELSE IF h[3] THEN <<Reasons[3]>>
       ELSE <<>>

VerdictObs(mentions, reasons) == [mentions |-> mentions, reasons |-> reasons]

\* a variant that warns again at exactly WARN_COOLDOWN seconds
WarnBranch_inclusive(current_time, last_warn) == current_time - last_warn >= WARN_COOLDOWN

\* the cooldown test of _take_action: TRUE selects the warning branch
WarnBranch(current_time, last_warn) == current_time - last_warn > WARN_COOLDOWN

\* the action name of the moderation_logs row: f"{action}_spam"
SpamLogAction(action) ==
    CASE action = "mute" -> "mute_spam"
      [] action = "kick" -> "kick_spam"
      [] OTHER -> "ban_spam"

\* What process_message did with one message: response is "none" (no Verdict),
\* "warn" (warning send issued), "call" (add_roles / kick / ban issued, with
\* outcome call) or "skip" (mute configured, no role named Muted: no call);
\* db is the outcome of the INSERT when the handler reached it in this step.
SpamObs(g, u, response, call, db) ==
    [guild |-> g, user |-> u, response |-> response, call |-> call, db |-> db]

\* _take_action up to its first suspension.  has_muted: the guild has a role
\* named "Muted"; call: outcome of add_roles / kick / ban; db: of the INSERT.
take_action(g, u, has_muted, call, db) ==
    /\ IF WarnBranch(now, user_last_warn[g][u])
       THEN \* await message.channel.send(...): suspended until WarnSendDone
            /\ warn_inflight' = Bump(warn_inflight, g, u)
            /\ spam_obs' = SpamObs(g, u, "warn", "ok", "ok")
            /\ UNCHANGED <<mute_tasks, repeat_offenders, mod_logs>>
       ELSE /\ UNCHANGED warn_inflight
            /\ IF punishment = "mute"
               THEN IF has_muted
                    THEN \* add_roles, then asyncio.sleep(duration)
                         /\ spam_obs' = SpamObs(g, u, "call", call, "ok")
                         /\ mute_tasks' =
                              IF call = "ok"
                              THEN [mute_tasks EXCEPT ![g][u] = Append(@, now + duration)]
                              ELSE mute_tasks
                         /\ UNCHANGED <<repeat_offenders, mod_logs>>
                    ELSE \* no role to add: falls through to the counter and the log
                         /\ spam_obs' = SpamObs(g, u, "skip", "ok", db)
                         /\ repeat_offenders' = Bump(repeat_offenders, g, u)
                         /\ mod_logs' = InsertLog(mod_logs, g, u, SpamLogAction(punishment), db)
                         /\ UNCHANGED mute_tasks
               ELSE \* kick or ban
                    /\ UNCHANGED mute_tasks
                    /\ IF call = "ok"
                       THEN /\ spam_obs' = SpamObs(g, u, "call", call, db)
                            /\ repeat_offenders' = Bump(repeat_offenders, g, u)
                            /\ mod_logs' = InsertLog(mod_logs, g, u, SpamLogAction(punishment), db)
                       ELSE /\ spam_obs' = SpamObs(g, u, "call", call, "ok")
                            /\ UNCHANGED <<repeat_offenders, mod_logs>>
    /\ UNCHANGED user_last_warn

\* AIDefenderBot.on_message -> AntiSpamModule.process_message
process_message(g, u, mentions, has_muted, call, db) ==
    /\ msgs < MaxMsgs
    /\ warn_inflight[g][u] < MaxInflight
    /\ Len(mute_tasks[g][u]) < MaxInflight
    /\ msgs' = msgs + 1
    /\ floods' = IF check_mention_spam(mentions) THEN floods + 1 ELSE floods
    /\ check_mention_spam(mentions) => floods < MaxFloods
    /\ recent_feed' = [recent_feed EXCEPT ![g][u] = Append(@, now)]
    /\ LET messages == PruneWindow(Append(message_history[g][u], now), now, time_window)
       IN /\ message_history' = [message_history EXCEPT ![g][u] = messages]
          /\ verdict_obs' = VerdictObs(mentions, verdicts(messages, mentions))
          /\ IF \/ check_message_frequency(messages)
                \/ check_duplicate_content
                \/ check_mention_spam(mentions)
             THEN take_action(g, u, has_muted, call, db)
             ELSE /\ spam_obs' = SpamObs(g, u, "none", "ok", "ok")
                  /\ UNCHANGED <<repeat_offenders, user_last_warn, warn_inflight,
                                 mute_tasks, mod_logs>>
    /\ UNCHANGED <<now, ticks, punishment, cleanup_obs>>

\* _take_action resumes after await message.channel.send(...)
WarnSendDone(g, u, call) ==
    /\ warn_inflight[g][u] > 0
    /\ warn_inflight' = [warn_inflight EXCEPT ![g][u] = @ - 1]
    /\ user_last_warn' = IF call = "ok" THEN [user_last_warn EXCEPT ![g][u] = now]
                         ELSE user_last_warn
    /\ UNCHANGED <<now, ticks, punishment, message_history, repeat_offenders, mute_tasks,
                   msgs, floods, recent_feed, spam_obs, verdict_obs, cleanup_obs, mod_logs>>

\* _take_action resumes after asyncio.sleep(duration): remove_roles, counter, log
MuteExpire(g, u, call, db) ==
    /\ mute_tasks[g][u] # <<>>
    /\ Head(mute_tasks[g][u]) <= now
    /\ mute_tasks' = [mute_tasks EXCEPT ![g][u] = Tail(@)]
    /\ IF call = "ok"
       THEN /\ repeat_offenders' = Bump(repeat_offenders, g, u)
            /\ mod_logs' = InsertLog(mod_logs, g, u, SpamLogAction(punishment), db)
       ELSE UNCHANGED <<repeat_offenders, mod_logs>>
    /\ UNCHANGED <<now, ticks, punishment, message_history, user_last_warn, warn_inflight,
                   msgs, floods, recent_feed, spam_obs, verdict_obs, cleanup_obs>>

\* AntiSpamModule._periodic_cleanup, one pass of the hourly loop
\* a variant that keeps a timestamp for half the window only
cleanup_age_half_window == time_window \div 2

\* the age up to which _periodic_cleanup keeps a timestamp: threshold * 2
cleanup_age == time_window * 2

CleanupObs(at, removed) == [at |-> at, removed |-> removed]

RECURSIVE Timestamps(_, _)
\* the number of timestamps history holds for the (guild, user) pairs of S
Timestamps(history, S) ==
    IF S = {} THEN 0
    ELSE LET p == CHOOSE q \in S : TRUE
         IN Len(history[p[1]][p[2]]) + Timestamps(history, S \ {p})

spam_periodic_cleanup ==
    LET kept == [g \in Guilds |-> [u \in Users |->
                    PruneWindow(message_history[g][u], now, cleanup_age)]]
        removed == Timestamps(message_history, Guilds \X Users)
                     - Timestamps(kept, Guilds \X Users)
    IN /\ \E g \in Guilds, u \in Users : message_history[g][u] # <<>>
       /\ message_history' = kept
       /\ cleanup_obs' = IF removed = 0 THEN cleanup_obs ELSE CleanupObs(now, removed)
       /\ UNCHANGED <<now, ticks, punishment, repeat_offenders, user_last_warn,
                      warn_inflight, mute_tasks, msgs, floods, recent_feed, spam_obs,
                      verdict_obs, mod_logs>>

(* --------------------------- AntiRaidModule --------------------------- *)
\* a variant that leaves out a join exactly join_window seconds old
get_recent_joins_strict(times, current_time) ==
    Cardinality({uid \in DOMAIN times : current_time - times[uid] < join_window})

\* _get_recent_joins, on the dict of one guild
get_recent_joins(times, current_time) ==
    Cardinality({uid \in DOMAIN times : current_time - times[uid] <= join_window})

\* a variant that screens on the account age alone
is_suspicious_account_age_only(account_age, has_avatar, default_avatar, nroles) ==
    account_age < SUSPICIOUS_AGE

\* _is_suspicious_account: account age in seconds, member.avatar is not None,
\* member.default_avatar, len(member.roles)
is_suspicious_account(account_age, has_avatar, default_avatar, nroles) ==
    \/ account_age < SUSPICIOUS_AGE
    \/ ~has_avatar
    \/ (default_avatar /\ nroles = 1)

\* the action name of the moderation_logs row: f"anti_raid_{action}"
RaidLogAction(action) ==
    CASE action = "kick" -> "anti_raid_kick"
      [] action = "ban" -> "anti_raid_ban"
      [] action = "timeout" -> "anti_raid_timeout"
      [] OTHER -> "anti_raid_warn"

\* _process_suspected_member: the table after it.  With action 'timeout' the
\* name datetime is unbound (the module never imports it): the NameError is
\* caught by the handler's except before any platform call is issued.
process_suspected_member(logs, g, u, call, db) ==
    IF raid_action = "timeout" THEN logs
    ELSE IF call = "ok" THEN InsertLog(logs, g, u, RaidLogAction(raid_action), db)
    ELSE logs

\* _process_suspected_member reaches its platform call (member.kick,
\* member.ban, member.send): with action 'timeout' the NameError on datetime
\* comes before member.edit
Attempts(action) == action # "timeout"

\* the responses that run _process_suspected_member
Processing == {"lockdown", "suspect", "message_suspect", "message_spam"}

\* What on_member_join did with one join event: response is "lockdown"
\* (_process_suspected_member for a join during lockdown), "activate"
\* (_activate_lockdown: the join count reached the threshold), "suspect"
\* (screen failed: suspect set and _process_suspected_member) or "none".
RaidObs(g, u, response) ==
    [guild |-> g, user |-> u, response |-> response,
     attempted |-> response \in Processing /\ Attempts(raid_action)]

\* the times the suspect records were made, after an event that took the
\* suspect sets from before to after at time t
Since(since, before, after, t) ==
    [g \in Guilds |->
        [u \in DOMAIN since[g] \cup after[g] |->
            IF u \in after[g] \ before[g] THEN t ELSE since[g][u]]]

\* a variant that does not mark the guild before its first await
activate_lockdown_unmarked(g) ==
    /\ activating' = activating \cup
          {[guild |-> g,
            original |-> verification_level[g],
            new_level |-> Max(verification_level[g], config_verification_level)]}
    /\ activated_at' = [activated_at EXCEPT ![g] = now]
    /\ activations' = [activations EXCEPT ![g] = @ + 1]
    /\ UNCHANGED lockdown_mode

\* _activate_lockdown up to its first await (guild.edit)
activate_lockdown(g) ==
    IF g \in lockdown_mode
    THEN UNCHANGED <<lockdown_mode, activating, activated_at, activations>>
    ELSE /\ lockdown_mode' = lockdown_mode \cup {g}
         /\ activating' = activating \cup
               {[guild |-> g,
                 original |-> verification_level[g],
                 new_level |-> Max(verification_level[g], config_verification_level)]}
         /\ activated_at' = [activated_at EXCEPT ![g] = now]
         /\ activations' = [activations EXCEPT ![g] = @ + 1]

\* on_member_join: u is the joining account, screen the result of
\* _is_suspicious_account for it
on_member_join(g, u, screen, call, db) ==
    /\ joins' = [joins EXCEPT ![g] = @ + 1]
    /\ join_feed' = IF g \in lockdown_mode THEN join_feed
                    ELSE [join_feed EXCEPT ![g] = Append(@, now)]
    /\ IF g \in lockdown_mode
       THEN /\ mod_logs' = process_suspected_member(mod_logs, g, u, call, db)
            /\ raid_obs' = RaidObs(g, u, "lockdown")
            /\ UNCHANGED <<join_times, recent_joins, suspected_raiders, lockdown_mode,
                           activating, activated_at, activations>>
       ELSE LET times == [uid \in DOMAIN join_times[g] \cup {u} |->
                             IF uid = u THEN now ELSE join_times[g][uid]]
            IN /\ join_times' = [join_times EXCEPT ![g] = times]
               /\ recent_joins' = [recent_joins EXCEPT ![g] = @ \cup {u}]
               /\ IF get_recent_joins(times, now) >= join_threshold
                  THEN /\ activate_lockdown(g)
                       /\ raid_obs' = RaidObs(g, u, "activate")
                       /\ UNCHANGED <<suspected_raiders, mod_logs>>
                  ELSE IF screen
                  THEN /\ suspected_raiders' = [suspected_raiders EXCEPT ![g] = @ \cup {u}]
                       /\ mod_logs' = process_suspected_member(mod_logs, g, u, call, db)
                       /\ raid_obs' = RaidObs(g, u, "suspect")
                       /\ UNCHANGED <<lockdown_mode, activating, activated_at, activations>>
                  ELSE /\ raid_obs' = RaidObs(g, u, "none")
                       /\ UNCHANGED <<suspected_raiders, mod_logs, lockdown_mode, activating,
                                      activated_at, activations>>
    /\ suspect_since' = Since(suspect_since, suspected_raiders, suspected_raiders', now)
    /\ UNCHANGED <<now, ticks, raid_action, release_tasks, verification_level, raid_msgs,
                   swept_at, lockdown_obs>>

\* the heuristic screen as specified: the account is less than 24 hours old,
\* or has no avatar, or has the default avatar and only the base role
FailsScreen(account_age, has_avatar, default_avatar, nroles) ==
    \/ account_age < 24 * 3600
    \/ ~has_avatar
    \/ (default_avatar /\ nroles = 1)

\* a member-join event of the platform: the next account joins guild g
MemberJoin(g, account_age, has_avatar, default_avatar, nroles, call, db) ==
    LET fails == FailsScreen(account_age, has_avatar, default_avatar, nroles)
    IN /\ joins[g] < MaxJoins
       /\ fails => suspects < MaxSuspects
       /\ suspects' = IF fails THEN suspects + 1 ELSE suspects
       /\ on_member_join(g, joins[g] + 1,
              is_suspicious_account(account_age, has_avatar, default_avatar, nroles),
              call, db)

\* What _activate_lockdown did after guild.edit: entered is whether guild.edit
\* and guild.invites() both returned, invites the invites the guild had, revoked the invite.delete calls issued, present the tracked accounts
\* guild.get_member found, kicked the accounts member.kick was called for,
\* failures the item calls that raised, notice whether _send_lockdown_notice
\* was called, scheduled whether the _disable_lockdown task was created
LockdownObs(g, entered, invites, revoked, present, kicked, failures, notice, scheduled) ==
    [guild |-> g, entered |-> entered, invites |-> invites,
     revoked |-> revoked, present |-> present, kicked |-> kicked,
     failures |-> failures, notice |-> notice, scheduled |-> scheduled]

\* a variant whose loop ends at the first item call that raises
each_item_until_failure(outcomes) ==
    LET bad == {i \in 1..Len(outcomes) : outcomes[i] # "ok"}
    IN IF bad = {} THEN [attempted |-> Len(outcomes), completed |-> TRUE]
       ELSE [attempted |-> CHOOSE i \in bad : \A k \in bad : i <= k,
             completed |-> FALSE]

\* a loop whose body is try: await item call / except: continue, over the
\* outcomes of the item calls: the calls issued, and whether the loop ended
\* without raising
each_item(outcomes) == [attempted |-> Len(outcomes), completed |-> TRUE]

\* the set as the sequence a for loop walks through
SeqOf(S) ==
    [k \in 1..Cardinality(S) |-> CHOOSE x \in S : Cardinality({y \in S : y <= x}) = k]

\* _activate_lockdown resumes after guild.edit: invites, kicks, notice, and the
\* task that will lift the lockdown.  edit: outcome of guild.edit; listing:
\* outcome of guild.invites(); invite_outcomes: of the invite.delete calls;
\* present: the accounts guild.get_member finds; kick_fail: the accounts whose
\* member.kick raises.  A failure of edit or listing leaves the try block.
activate_lockdown_resume(a, edit, listing, invite_outcomes, present, kick_fail) ==
    LET g == a.guild
        members == SeqOf(recent_joins[g] \cap present)
        revoke == each_item(invite_outcomes)
        kick == each_item([i \in 1..Len(members) |->
                             IF members[i] \in kick_fail THEN "error" ELSE "ok"])
        kicked == {members[i] : i \in 1..kick.attempted}
        entered == edit = "ok" /\ listing = "ok"
        finished == entered /\ revoke.completed /\ kick.completed
    IN /\ a \in activating
       /\ activating' = activating \ {a}
       /\ verification_level' =
            IF edit = "ok" THEN [verification_level EXCEPT ![g] = a.new_level]
            ELSE verification_level
       /\ release_tasks' =
            IF finished
            THEN release_tasks \cup
                   {[guild |-> g, due |-> now + LOCKDOWN_SECONDS, original |-> a.original]}
            ELSE release_tasks
       /\ lockdown_obs' =
            LockdownObs(g, entered,
                IF entered THEN Len(invite_outcomes) ELSE 0,
                IF entered THEN revoke.attempted ELSE 0,
                IF entered THEN recent_joins[g] \cap present ELSE {},
                IF entered /\ revoke.completed THEN kicked ELSE {},
                IF entered
                   THEN Cardinality({i \in 1..revoke.attempted : invite_outcomes[i] # "ok"})
                        + (IF revoke.completed THEN Cardinality(kicked \cap kick_fail) ELSE 0)
                   ELSE 0,
                finished, finished)
       /\ UNCHANGED <<now, ticks, raid_action, join_times, recent_joins, suspected_raiders,
                      lockdown_mode, joins, join_feed, suspects, activated_at, activations,
                      raid_obs, raid_msgs, suspect_since, swept_at, mod_logs>>

\* _activate_lockdown resumes in a guild without invites whose tracked
\* accounts are all present and can be kicked
ActivateFinish(a, edit, invites) ==
    activate_lockdown_resume(a, edit, invites, <<>>, recent_joins[a.guild], {})

\* a variant that leaves lockdown mode before the level is restored
disable_lockdown_discard_first(t, edit) ==
    /\ t \in release_tasks
    /\ t.due <= now
    /\ release_tasks' = release_tasks \ {t}
    /\ lockdown_mode' = lockdown_mode \ {t.guild}
    /\ verification_level' =
         IF edit = "ok" THEN [verification_level EXCEPT ![t.guild] = t.original]
         ELSE verification_level
    /\ UNCHANGED <<now, ticks, raid_action, join_times, recent_joins, suspected_raiders,
                   activating, joins, join_feed, suspects, activated_at, activations,
                   raid_obs, raid_msgs, suspect_since, swept_at, lockdown_obs, mod_logs>>

\* _disable_lockdown resumes after asyncio.sleep(3600)
disable_lockdown(t, edit) ==
    /\ t \in release_tasks
    /\ t.due <= now
    /\ release_tasks' = release_tasks \ {t}
    /\ IF edit = "ok"
       THEN /\ verification_level' = [verification_level EXCEPT ![t.guild] = t.original]
            /\ lockdown_mode' = lockdown_mode \ {t.guild}
       ELSE UNCHANGED <<verification_level, lockdown_mode>>
    /\ UNCHANGED <<now, ticks, raid_action, join_times, recent_joins, suspected_raiders,
                   activating, joins, join_feed, suspects, activated_at, activations,
                   raid_obs, raid_msgs, suspect_since, swept_at, lockdown_obs, mod_logs>>

\* _is_spam_behavior: len(message.mentions), len(content), len(set(content)),
\* and whether the content holds 'http' with one of the invite domains
is_spam_behavior(mentions, length, distinct, invite_link) ==
    \/ mentions > RAID_MENTIONS
    \/ (length > REPETITIVE_LENGTH /\ 2 * distinct < length)
    \/ invite_link

\* AntiRaidModule.on_message for a message of member u of guild g
raid_on_message(g, u, spam, call, db) ==
    /\ IF u \in suspected_raiders[g]
       THEN /\ mod_logs' = process_suspected_member(mod_logs, g, u, call, db)
            /\ raid_obs' = RaidObs(g, u, "message_suspect")
            /\ UNCHANGED suspected_raiders
       ELSE IF u \in recent_joins[g] /\ spam
       THEN /\ suspected_raiders' = [suspected_raiders EXCEPT ![g] = @ \cup {u}]
            /\ mod_logs' = process_suspected_member(mod_logs, g, u, call, db)
            /\ raid_obs' = RaidObs(g, u, "message_spam")
       ELSE /\ raid_obs' = RaidObs(g, u, "message_none")
            /\ UNCHANGED <<suspected_raiders, mod_logs>>
    /\ suspect_since' = Since(suspect_since, suspected_raiders, suspected_raiders', now)
    /\ UNCHANGED <<now, ticks, raid_action, join_times, recent_joins, lockdown_mode,
                   activating, release_tasks, verification_level, joins, join_feed,
                   suspects, activated_at, activations, swept_at, lockdown_obs>>

\* a message event of the platform: member u of guild g posts a message
RaidMessage(g, u, mentions, length, distinct, invite_link, call, db) ==
    /\ raid_msgs < MaxRaidMsgs
    /\ u \in 1 .. joins[g]
    /\ raid_msgs' = raid_msgs + 1
    /\ raid_on_message(g, u, is_spam_behavior(mentions, length, distinct, invite_link),
                       call, db)

\* AntiRaidModule._periodic_cleanup, one pass of the hourly loop: a guild
\* has a key in join_times exactly when its dict is not empty
raid_periodic_cleanup ==
    LET kept(g) == [uid \in {v \in DOMAIN join_times[g] :
                                now - join_times[g][v] <= CLEANUP_AGE} |->
                       join_times[g][uid]]
        emptied(g) == DOMAIN join_times[g] # {} /\ DOMAIN kept(g) = {}
    IN /\ join_times' = [g \in Guilds |-> kept(g)]
       /\ recent_joins' = [g \in Guilds |-> IF emptied(g) THEN {} ELSE recent_joins[g]]
       /\ suspected_raiders' =
            [g \in Guilds |-> IF emptied(g) THEN {} ELSE suspected_raiders[g]]
       /\ swept_at' = now
       /\ UNCHANGED <<now, ticks, raid_action, lockdown_mode, activating, release_tasks,
                      verification_level, joins, join_feed, suspects, activated_at,
                      activations, raid_obs, raid_msgs, suspect_since, lockdown_obs,
                      mod_logs>>

(* ---------------------------- BackupManager --------------------------- *)
\* Python keys: an int and the str that json.dumps makes of it are different
\* keys, whatever the digits
PyInt(n) == <<"int", n>>
PyStr(n) == <<"str", n>>

\* the roles dict comprehension of backup_guild: keyed by role.id
SerializeRoles(roles) == {PyInt(r) : r \in roles}

\* json.loads(json.dumps(d)) on the keys of a dict: every key comes back a str
JsonRoundTrip(keys) == {PyStr(k[2]) : k \in keys}

\* a variant that keeps the row the tenant already has (INSERT OR IGNORE)
InsertOrIgnore(table, row) ==
    IF \E r \in table : r.server_id = row.server_id THEN table ELSE table \cup {row}

\* the table after INSERT OR REPLACE of a row: server_id is the primary key
InsertOrReplace(table, row) ==
    {r \in table : r.server_id # row.server_id} \cup {row}

\* SELECT ... WHERE server_id = ? ORDER BY timestamp DESC LIMIT 1
LatestBackup(table, g) ==
    {r \in table : /\ r.server_id = g
                   /\ \A r2 \in table : r2.server_id = g => r2.timestamp <= r.timestamp}

\* the roles restore_guild finds missing: role_id not in existing_roles, the
\* snapshot keys read back from JSON, the live keys being role.id
MissingRoles(snapshot_keys, live_roles) ==
    {k \in snapshot_keys : k \notin {PyInt(r) : r \in live_roles}}

\* guild.roles after n create_role calls: each new role gets an id of its own
FreshRoles(roles, n) == roles \cup (next_role_id .. next_role_id + n - 1)

\* What one restore_guild call did: reachable is whether bot.get_guild knew
\* the guild, taken_at the timestamp of the row it restored from (0: none),
\* result the return value, creates and edits the create_role and role.edit
\* calls it issued
RestoreObs(g, reachable, taken_at, result, creates, edits) ==
    [guild |-> g, reachable |-> reachable, taken_at |-> taken_at, result |-> result,
     creates |-> creates, edits |-> edits]

\* a variant that goes on to the roles without testing what get_guild returned
restore_guild_any_guild(g, live, db, reachable, created, edit) ==
    LET found == LatestBackup(server_backups, g)
        backup == CHOOSE r \in found : TRUE
        missing == Cardinality(MissingRoles(backup.roles, live))
        room == MaxRoles - Cardinality(live)
        done == IF created < room THEN created ELSE room
    IN IF db # "ok" \/ found = {}
       THEN [roles |-> live, made |-> 0, obs |-> RestoreObs(g, reachable, 0, FALSE, 0, 0)]
       ELSE IF done < missing
       THEN [roles |-> FreshRoles(live, done), made |-> done,
             obs |-> RestoreObs(g, reachable, backup.timestamp, FALSE, done + 1, 0)]
       ELSE [roles |-> FreshRoles(live, missing), made |-> missing,
             obs |-> IF edit = "ok"
                     THEN RestoreObs(g, reachable, backup.timestamp, TRUE, missing,
                                     Cardinality(live) + missing)
                     ELSE RestoreObs(g, reachable, backup.timestamp, FALSE, missing, 1)]

\* restore_guild on the live roles of guild g: the roles and the observation
\* after it.  db: outcome of the SELECT; reachable: bot.get_guild finds the
\* guild; created: create_role calls that succeed before one fails; edit:
\* outcome of the role.edit calls (the first failure ends the loop)
restore_guild(g, live, db, reachable, created, edit) ==
    LET found == LatestBackup(server_backups, g)
        backup == CHOOSE r \in found : TRUE
        missing == Cardinality(MissingRoles(backup.roles, live))
        room == MaxRoles - Cardinality(live)
        done == IF created < room THEN created ELSE room
    IN IF db # "ok" \/ found = {} \/ ~reachable
       THEN [roles |-> live, made |-> 0, obs |-> RestoreObs(g, reachable, 0, FALSE, 0, 0)]
       ELSE IF done < missing
       THEN [roles |-> FreshRoles(live, done), made |-> done,
             obs |-> RestoreObs(g, reachable, backup.timestamp, FALSE, done + 1, 0)]
       ELSE [roles |-> FreshRoles(live, missing), made |-> missing,
             obs |-> IF edit = "ok"
                     THEN RestoreObs(g, reachable, backup.timestamp, TRUE, missing,
                                     Cardinality(live) + missing)
                     ELSE RestoreObs(g, reachable, backup.timestamp, FALSE, missing, 1)]

\* backup_guild
backup_guild(g, db) ==
    /\ backups < MaxBackups
    /\ backups' = backups + 1
    /\ IF db = "ok"
       THEN /\ server_backups' = InsertOrReplace(server_backups,
                  [server_id |-> g,
                   roles |-> JsonRoundTrip(SerializeRoles(guild_roles[g])),
                   timestamp |-> now])
            /\ snapshots_ok' = [snapshots_ok EXCEPT ![g] = @ + 1]
            /\ persisted' = persisted \cup {<<g, now>>}
       ELSE UNCHANGED <<server_backups, snapshots_ok, persisted>>
    /\ UNCHANGED sweep_obs
    /\ UNCHANGED <<now, ticks, channel_deletions, role_deletions, admin_changes,
                   guild_channels, guild_roles, audit_channel_delete, audit_role_delete,
                   next_role_id, deletes, updates, restores, nuke_obs, restore_obs,
                   mod_logs>>

\* What one backup_all_guilds sweep did: the guilds backup_guild was called
\* for, and those whose call returned True
SweepObs(attempted, succeeded) == [attempted |-> attempted, succeeded |-> succeeded]

\* a variant that gives up the sweep at the first guild whose snapshot fails
guilds_attempted_until_failure(order, dbs) ==
    LET bad == {i \in 1..Len(order) : dbs[order[i]] # "ok"}
        last == IF bad = {} THEN Len(order) ELSE CHOOSE i \in bad : \A k \in bad : i <= k
    IN {order[i] : i \in 1..last}

\* the guilds the loop of backup_all_guilds calls backup_guild for: dbs gives
\* the outcome of each guild's INSERT; backup_guild catches every exception
guilds_attempted(order, dbs) == {order[i] : i \in 1..Len(order)}

\* the server_backups table after the backup_guild calls of a sweep
RECURSIVE sweep_table(_, _, _)
sweep_table(table, todo, dbs) ==
    IF todo = {} THEN table
    ELSE LET g == CHOOSE x \in todo : \A y \in todo : x <= y
         IN sweep_table(
              IF dbs[g] = "ok"
              THEN InsertOrReplace(table,
                      [server_id |-> g,
                       roles |-> JsonRoundTrip(SerializeRoles(guild_roles[g])),
                       timestamp |-> now])
              ELSE table,
              todo \ {g}, dbs)

\* backup_all_guilds over bot.guilds
backup_all_guilds(dbs) ==
    LET attempted == guilds_attempted(SeqOf(Guilds), dbs)
        succeeded == {g \in attempted : dbs[g] = "ok"}
    IN /\ backups < MaxBackups
       /\ backups' = backups + Cardinality(attempted)
       /\ server_backups' = sweep_table(server_backups, attempted, dbs)
       /\ snapshots_ok' = [g \in Guilds |->
                             IF g \in succeeded THEN snapshots_ok[g] + 1 ELSE snapshots_ok[g]]
       /\ persisted' = persisted \cup {<<g, now>> : g \in succeeded}
       /\ sweep_obs' = SweepObs(attempted, succeeded)
       /\ UNCHANGED <<now, ticks, channel_deletions, role_deletions, admin_changes,
                      guild_channels, guild_roles, audit_channel_delete, audit_role_delete,
                      next_role_id, deletes, updates, restores, nuke_obs, restore_obs,
                      mod_logs>>

\* a direct call of BackupManager.restore_guild
RestoreGuild(g, db, reachable, created, edit) ==
    LET r == restore_guild(g, guild_roles[g], db, reachable, created, edit)
    IN /\ restores < MaxRestores
       /\ restores' = restores + 1
       /\ guild_roles' = [guild_roles EXCEPT ![g] = r.roles]
       /\ next_role_id' = next_role_id + r.made
       /\ restore_obs' = r.obs
       /\ UNCHANGED <<now, ticks, channel_deletions, role_deletions, admin_changes,
                      server_backups, guild_channels, audit_channel_delete,
                      audit_role_delete, deletes, updates, backups, snapshots_ok, persisted,
                      sweep_obs,
                      nuke_obs, mod_logs>>

(* --------------------------- AntiNukeModule --------------------------- *)
\* a variant that fires as soon as the threshold is reached
exceeds_or_reaches(count, max_deletes) == count >= max_deletes

\* the comparisons of on_guild_channel_delete and on_guild_role_delete
exceeds(count, max_deletes) == count > max_deletes

\* a variant that reads the audit feed without testing the permission
get_last_deletor_unchecked(view_audit_log, audit, latest_channel_delete) ==
    IF audit = "ok" THEN latest_channel_delete ELSE 0

\* guild.me.guild_permissions.view_audit_log and await _get_last_deletor(guild):
\* the user of the latest channel_delete audit entry; 0 stands for a falsy
\* result (no permission, Forbidden, no entry)
get_last_deletor(view_audit_log, audit, latest_channel_delete) ==
    IF view_audit_log /\ audit = "ok" THEN latest_channel_delete ELSE 0

\* What the nuke detector did with one deletion event: access is whether the
\* audit feed could be read (permission held, no Forbidden), actor the account
\* it charged (0: none), verdict whether _handle_attack ran, restore whether
\* _handle_attack called restore_guild
NukeObs(g, kind, access, actor, verdict, restore) ==
    [guild |-> g, kind |-> kind, access |-> access, actor |-> actor,
     verdict |-> verdict, restore |-> restore]

\* _handle_attack reaches the INSERT: the role edits are best-effort, a
\* Forbidden ban is passed over, the alert swallows its failures
ReachesLog(ban) == ban \in {"ok", "forbidden"}

\* _handle_attack reaches the damage test: the INSERT did not raise
ReachesRestore(ban, db) == ReachesLog(ban) /\ db = "ok"

\* len(guild.channels) < 3 or len(guild.roles) < 3
Damaged(channels, roles) ==
    channels < DAMAGE_THRESHOLD \/ Cardinality(roles) < DAMAGE_THRESHOLD

\* the part shared by on_guild_channel_delete and on_guild_role_delete, after
\* the platform removed the channel or role: counters is the dict of the kind,
\* maxd its threshold, channels and roles the guild after the deletion
on_delete(g, kind, counters, maxd, channels, roles, access, user, ban, db, rdb, reachable, created, edit) ==
    LET count == counters[g][user] + 1
        verdict == exceeds(count, maxd)
        restore == verdict /\ ReachesRestore(ban, db) /\ Damaged(channels, roles)
        r == restore_guild(g, roles, rdb, reachable, created, edit)
    IN IF user = 0
       THEN /\ nuke_obs' = NukeObs(g, kind, access, 0, FALSE, FALSE)
            /\ guild_roles' = [guild_roles EXCEPT ![g] = roles]
            /\ UNCHANGED <<channel_deletions, role_deletions, admin_changes, restores,
                           restore_obs, next_role_id, mod_logs>>
       ELSE /\ CASE kind = "channel" ->
                      /\ channel_deletions' = Bump(channel_deletions, g, user)
                      /\ UNCHANGED <<role_deletions, admin_changes>>
                 [] kind = "role" ->
                      /\ role_deletions' = Bump(role_deletions, g, user)
                      /\ UNCHANGED <<channel_deletions, admin_changes>>
                 [] OTHER ->
                      /\ admin_changes' = Bump(admin_changes, g, user)
                      /\ UNCHANGED <<channel_deletions, role_deletions>>
            /\ nuke_obs' = NukeObs(g, kind, access, user, verdict, restore)
            /\ mod_logs' = IF verdict /\ ReachesLog(ban)
                           THEN InsertLog(mod_logs, g, user, "ban", db)
                           ELSE mod_logs
            /\ IF restore
               THEN /\ restores' = restores + 1
                    /\ restore_obs' = r.obs
                    /\ guild_roles' = [guild_roles EXCEPT ![g] = r.roles]
                    /\ next_role_id' = next_role_id + r.made
               ELSE /\ guild_roles' = [guild_roles EXCEPT ![g] = roles]
                    /\ UNCHANGED <<restores, restore_obs, next_role_id>>

\* a channel of guild g is deleted by actor, and on_guild_channel_delete runs
on_guild_channel_delete(g, actor, view_audit_log, audit, ban, db, rdb, reachable, created, edit) ==
    /\ deletes < MaxDeletes
    /\ deletes' = deletes + 1
    /\ guild_channels[g] > 0
    /\ guild_channels' = [guild_channels EXCEPT ![g] = @ - 1]
    /\ audit_channel_delete' = [audit_channel_delete EXCEPT ![g] = actor]
    /\ on_delete(g, "channel", channel_deletions, max_channel_deletes,
                 guild_channels[g] - 1, guild_roles[g],
                 view_audit_log /\ audit = "ok",
                 get_last_deletor(view_audit_log, audit, actor),
                 ban, db, rdb, reachable, created, edit)
    /\ UNCHANGED <<now, ticks, server_backups, audit_role_delete, updates, backups,
                   snapshots_ok, persisted, sweep_obs>>

\* a role of guild g is deleted by actor, and on_guild_role_delete runs
on_guild_role_delete(g, role, actor, view_audit_log, audit, ban, db, rdb, reachable, created, edit) ==
    /\ deletes < MaxDeletes
    /\ deletes' = deletes + 1
    /\ role \in guild_roles[g] \ {1}
    /\ audit_role_delete' = [audit_role_delete EXCEPT ![g] = actor]
    /\ on_delete(g, "role", role_deletions, max_role_deletes,
                 guild_channels[g], guild_roles[g] \ {role},
                 view_audit_log /\ audit = "ok",
                 get_last_deletor(view_audit_log, audit, audit_channel_delete[g]),
                 ban, db, rdb, reachable, created, edit)
    /\ UNCHANGED <<now, ticks, server_backups, guild_channels, audit_channel_delete,
                   updates, backups, snapshots_ok, persisted, sweep_obs>>

\* guild.me.guild_permissions.view_audit_log and await
\* _get_last_role_updater(guild): the user of the latest member_role_update
\* audit entry; 0 stands for a falsy result
get_last_role_updater(view_audit_log, audit, latest_role_update) ==
    IF view_audit_log /\ audit = "ok" THEN latest_role_update ELSE 0

\* the kind of a member update event: the roles are the same, an added role
\* carries the administrator permission, or the roles changed otherwise
UpdateKind(roles_changed, dangerous) ==
    IF ~roles_changed THEN "member_update"
    ELSE IF dangerous THEN "escalation" ELSE "role_update"

\* a variant that counts every role update, whatever the added roles carry
on_member_update_any_role(g, actor, roles_changed, dangerous, view_audit_log, audit, ban, db, rdb, reachable, created, edit) ==
    LET access == roles_changed /\ view_audit_log /\ audit = "ok"
        user == IF roles_changed
                THEN get_last_role_updater(view_audit_log, audit, actor)
                ELSE 0
        kind == UpdateKind(roles_changed, dangerous)
    IN /\ updates < MaxUpdates
       /\ updates' = updates + 1
       /\ IF user # 0
          THEN on_delete(g, kind, admin_changes, ESCALATION_TOLERANCE,
                         guild_channels[g], guild_roles[g], access, user,
                         ban, db, rdb, reachable, created, edit)
          ELSE /\ nuke_obs' = NukeObs(g, kind, access, user, FALSE, FALSE)
               /\ UNCHANGED <<channel_deletions, role_deletions, admin_changes, restores,
                              restore_obs, next_role_id, guild_roles, mod_logs>>
       /\ UNCHANGED <<now, ticks, server_backups, guild_channels, audit_channel_delete,
                      audit_role_delete, deletes, backups, snapshots_ok, persisted,
                      sweep_obs>>

\* roles of a member are changed by actor, and on_member_update runs.
\* roles_changed: before.roles != after.roles; dangerous: an added role
\* carries the administrator permission
on_member_update(g, actor, roles_changed, dangerous, view_audit_log, audit, ban, db, rdb, reachable, created, edit) ==
    LET access == roles_changed /\ view_audit_log /\ audit = "ok"
        user == IF roles_changed
                THEN get_last_role_updater(view_audit_log, audit, actor)
                ELSE 0
        kind == UpdateKind(roles_changed, dangerous)
    IN /\ updates < MaxUpdates
       /\ updates' = updates + 1
       /\ IF user # 0 /\ dangerous
          THEN on_delete(g, kind, admin_changes, ESCALATION_TOLERANCE,
                         guild_channels[g], guild_roles[g], access, user,
                         ban, db, rdb, reachable, created, edit)
          ELSE /\ nuke_obs' = NukeObs(g, kind, access, user, FALSE, FALSE)
               /\ UNCHANGED <<channel_deletions, role_deletions, admin_changes, restores,
                              restore_obs, next_role_id, guild_roles, mod_logs>>
       /\ UNCHANGED <<now, ticks, server_backups, guild_channels, audit_channel_delete,
                      audit_role_delete, deletes, backups, snapshots_ok, persisted,
                      sweep_obs>>

(* --------------------------- WatchdogModule --------------------------- *)
\* rechecks: _check_network calls of the latest _handle_network_outage, failed:
\* those that returned False; closes: bot.close() calls so far
OutageObs(rechecks, failed, closes) ==
    [rechecks |-> rechecks, failed |-> failed, closes |-> closes]

\* a variant of the loop test that lets one more re-check through
retry_allowed_once_more(n) == n <= OUTAGE_RETRIES

\* while retries < 3
retry_allowed(n) == n < OUTAGE_RETRIES

\* outcome of the psutil readings of one iteration: both below 90, one above
\* 90, or psutil raising
Samples == {"normal", "high", "error"}

\* if self.last_incident and time.time() - self.last_incident < 300: return
in_cooldown(t) == last_incident # 0 /\ t - last_incident < INCIDENT_COOLDOWN

\* one iteration of _monitor_system up to its sleep: the readings, the alert
\* when one is high, then _check_network; the alert outside its cooldown sets
\* last_incident and raises on self.bot.version, which main.py never assigns,
\* and the loop's except takes the iteration to its sleep(60)
monitor_system(sample, network) ==
    /\ wd_pc = "monitor"
    /\ cycles < MaxCycles
    /\ cycles' = cycles + 1
    /\ closed' = closed
    /\ IF sample = "error"
       THEN /\ wd_pc' = "sleep"
            /\ UNCHANGED <<retries, last_incident, outage_obs>>
       ELSE IF sample = "high" /\ ~in_cooldown(now)
       THEN /\ last_incident' = now
            /\ wd_pc' = "sleep"
            /\ UNCHANGED <<retries, outage_obs>>
       ELSE IF network
       THEN /\ wd_pc' = "sleep"
            /\ UNCHANGED <<retries, last_incident, outage_obs>>
       ELSE /\ wd_pc' = "outage"
            /\ retries' = 0
            /\ outage_obs' = OutageObs(0, 0, outage_obs.closes)
            /\ UNCHANGED last_incident
    /\ UNCHANGED <<now, ticks, spamVars, raidVars, nukeVars, mod_logs>>

\* _handle_network_outage, one pass of its loop up to the sleep(10): the loop
\* test and _check_network; a passing check returns to the monitoring loop
outage_recheck(network) ==
    /\ wd_pc = "outage"
    /\ retry_allowed(retries)
    /\ outage_obs' = OutageObs(outage_obs.rechecks + 1,
                               outage_obs.failed + (IF network THEN 0 ELSE 1),
                               outage_obs.closes)
    /\ wd_pc' = IF network THEN "sleep" ELSE "backoff"
    /\ UNCHANGED <<retries, last_incident, closed, cycles>>
    /\ UNCHANGED <<now, ticks, spamVars, raidVars, nukeVars, mod_logs>>

\* the sleep(10) of the loop is over: retries += 1
outage_backoff_done ==
    /\ wd_pc = "backoff"
    /\ retries' = retries + 1
    /\ wd_pc' = "outage"
    /\ UNCHANGED <<last_incident, closed, cycles, outage_obs>>
    /\ UNCHANGED <<now, ticks, spamVars, raidVars, nukeVars, mod_logs>>

\* the loop test fails: the critical log line, then bot.close() unless the bot
\* is closed already; close() marks the bot closed before anything in it can
\* fail, and a failure is taken by the monitoring loop's except to its sleep
outage_escalate(close) ==
    /\ wd_pc = "outage"
    /\ ~retry_allowed(retries)
    /\ IF closed
       THEN UNCHANGED <<closed, outage_obs>>
       ELSE /\ closed' = TRUE
            /\ outage_obs' = OutageObs(outage_obs.rechecks, outage_obs.failed,
                                       outage_obs.closes + 1)
    /\ wd_pc' = "sleep"
    /\ close \in Outcomes
    /\ UNCHANGED <<retries, last_incident, cycles>>
    /\ UNCHANGED <<now, ticks, spamVars, raidVars, nukeVars, mod_logs>>

\* the sleep(30) or sleep(60) that ends an iteration is over
monitor_wake ==
    /\ wd_pc = "sleep"
    /\ wd_pc' = "monitor"
    /\ UNCHANGED <<retries, last_incident, closed, cycles, outage_obs>>
    /\ UNCHANGED <<now, ticks, spamVars, raidVars, nukeVars, mod_logs>>

(* ------------------------------- clock -------------------------------- *)
\* due times of the pending asyncio.sleep timers
DueTimes ==
    UNION {{mute_tasks[g][u][i] : i \in 1..Len(mute_tasks[g][u])} :
              g \in Guilds, u \in Users}
    \cup {t.due : t \in release_tasks}

\* a handler is between two awaits of platform calls
Awaiting ==
    \/ \E g \in Guilds, u \in Users : warn_inflight[g][u] > 0
    \/ activating # {}

\* the platform's message events that are at most time_window old at time t
FeedAt(t) ==
    [g \in Guilds |-> [u \in Users |->
        SelectSeq(recent_feed[g][u], LAMBDA a : a + time_window >= t)]]

SpamSteps == {1, 10, 300}
RaidSteps == {1, 60, 3600}

Advance(t) ==
    /\ ticks < MaxTicks
    /\ ~Awaiting
    /\ \A due \in DueTimes : t <= due
    /\ now' = t
    /\ ticks' = ticks + 1
    /\ recent_feed' = FeedAt(t)
    /\ UNCHANGED <<punishment, message_history, repeat_offenders, user_last_warn,
                   warn_inflight, mute_tasks, msgs, floods, spam_obs, verdict_obs, cleanup_obs,
                   mod_logs>>
    /\ join_feed' = [g \in Guilds |->
                       SelectSeq(join_feed[g], LAMBDA a : a + join_window >= t)]
    /\ UNCHANGED <<raid_action, join_times, recent_joins, suspected_raiders, lockdown_mode,
                   activating, release_tasks, verification_level, joins, suspects,
                   activated_at, activations, raid_obs, raid_msgs, suspect_since,
                   swept_at, lockdown_obs>>
    /\ UNCHANGED nukeVars
    /\ UNCHANGED wdVars

Tick(d) == Advance(now + d)

\* the clock reaches the next due timer
TickToTimer ==
    /\ DueTimes # {}
    /\ \A due \in DueTimes : now < due
    /\ Advance(CHOOSE t \in DueTimes : \A t2 \in DueTimes : t <= t2)

(* --------------------------- specifications --------------------------- *)
Zero2 == [g \in Guilds |-> [u \in Users |-> 0]]
Empty2 == [g \in Guilds |-> [u \in Users |-> <<>>]]

\* the tenants and accounts the message events are drawn from
SpamGuilds == {1}
SpamUsers == {1}

\* WatchdogModule after initialize(): the monitoring task is about to begin
\* its first iteration
WatchdogIdle ==
    /\ wd_pc = "monitor"
    /\ retries = 0
    /\ last_incident = 0
    /\ closed = FALSE
    /\ cycles = 0
    /\ outage_obs = OutageObs(0, 0, 0)

InitClock ==
    /\ now = StartTime
    /\ ticks = 0
    /\ mod_logs = EmptyBag
    /\ WatchdogIdle

SpamIdle ==
    /\ message_history = Empty2
    /\ repeat_offenders = Zero2
    /\ user_last_warn = Zero2
    /\ warn_inflight = Zero2
    /\ mute_tasks = Empty2
    /\ msgs = 0
    /\ floods = 0
    /\ recent_feed = Empty2
    /\ spam_obs = SpamObs(1, 1, "none", "ok", "ok")
    /\ verdict_obs = VerdictObs(0, <<>>)
    /\ cleanup_obs = CleanupObs(0, 0)

\* guild.verification_level.value at start-up: below the configured level in
\* guild 1, above it in the others
InitialLevel(g) == IF g = 1 THEN 0 ELSE 2

RaidIdle ==
    /\ join_times = [g \in Guilds |-> <<>>]
    /\ recent_joins = [g \in Guilds |-> {}]
    /\ suspected_raiders = [g \in Guilds |-> {}]
    /\ lockdown_mode = {}
    /\ activating = {}
    /\ release_tasks = {}
    /\ verification_level = [g \in Guilds |-> InitialLevel(g)]
    /\ joins = [g \in Guilds |-> 0]
    /\ join_feed = [g \in Guilds |-> <<>>]
    /\ suspects = 0
    /\ activated_at = [g \in Guilds |-> 0]
    /\ activations = [g \in Guilds |-> 0]
    /\ raid_msgs = 0
    /\ suspect_since = [g \in Guilds |-> <<>>]
    /\ swept_at = 0
    /\ lockdown_obs = LockdownObs(1, FALSE, 0, 0, {}, {}, 0, FALSE, FALSE)
    /\ raid_obs = RaidObs(1, 1, "none")

NukeIdle ==
    /\ channel_deletions = Zero2
    /\ role_deletions = Zero2
    /\ admin_changes = Zero2
    /\ server_backups = {}
    /\ guild_channels = [g \in Guilds |-> InitChannels]
    /\ guild_roles = [g \in Guilds |-> 1..InitRoles]
    /\ audit_channel_delete = [g \in Guilds |-> 0]
    /\ audit_role_delete = [g \in Guilds |-> 0]
    /\ next_role_id = InitRoles + 1
    /\ deletes = 0
    /\ updates = 0
    /\ backups = 0
    /\ snapshots_ok = [g \in Guilds |-> 0]
    /\ persisted = {}
    /\ sweep_obs = SweepObs({}, {})
    /\ restores = 0
    /\ nuke_obs = NukeObs(1, "channel", FALSE, 0, FALSE, FALSE)
    /\ restore_obs = RestoreObs(1, TRUE, 0, FALSE, 0, 0)

InitSpam ==
    /\ InitClock
    /\ NukeIdle
    /\ punishment \in Punishments
    /\ raid_action = "kick"
    /\ SpamIdle
    /\ RaidIdle

NextSpam ==
  /\ UNCHANGED <<raidVars, nukeVars, wdVars>>
  /\
    \/ \E g \in SpamGuilds, u \in SpamUsers, mentions \in {0, mention_threshold},
          has_muted \in BOOLEAN, call \in Outcomes, db \in DbOutcomes :
            process_message(g, u, mentions, has_muted, call, db)
    \/ \E g \in Guilds, u \in Users, call \in Outcomes : WarnSendDone(g, u, call)
    \/ \E g \in Guilds, u \in Users, call \in Outcomes, db \in DbOutcomes :
            MuteExpire(g, u, call, db)
    \/ spam_periodic_cleanup
    \/ \E d \in SpamSteps : Tick(d)
    \/ TickToTimer

SpecSpam == InitSpam /\ [][NextSpam]_vars

\* the tenants the join events are drawn from
RaidGuilds == {1}
\* joining accounts: <<age in seconds, has an avatar, default avatar, roles>>
Profiles == {<<SUSPICIOUS_AGE, TRUE, FALSE, 1>>,
             <<SUSPICIOUS_AGE, TRUE, TRUE, 2>>,
             <<SUSPICIOUS_AGE - 1, TRUE, FALSE, 2>>,
             <<SUSPICIOUS_AGE, FALSE, FALSE, 2>>,
             <<SUSPICIOUS_AGE, TRUE, TRUE, 1>>}

InitRaid ==
    /\ InitClock
    /\ NukeIdle
    /\ punishment = "mute"
    /\ raid_action \in {"kick", "timeout"}
    /\ SpamIdle
    /\ RaidIdle

NextRaid ==
  /\ UNCHANGED <<spamVars, nukeVars, wdVars>>
  /\
    \/ \E g \in RaidGuilds, p \in Profiles, call \in Outcomes, db \in DbOutcomes :
            MemberJoin(g, p[1], p[2], p[3], p[4], call, db)
    \/ \E a \in activating, edit \in Outcomes, invites \in Outcomes :
            ActivateFinish(a, edit, invites)
    \/ \E t \in release_tasks, edit \in Outcomes : disable_lockdown(t, edit)
    \/ \E d \in RaidSteps : Tick(d)
    \/ TickToTimer

SpecRaid == InitRaid /\ [][NextRaid]_vars

\* the behaviours of the suspect records: joins below the lockdown threshold,
\* messages of the members, the hourly sweep, and a clock that can pass the
\* sweep's age limit
SuspectGuilds == {1}
SuspectSteps == {1, CLEANUP_AGE}

\* messages by what _is_spam_behavior reads: mentions, len(content),
\* len(set(content)), invite link
RaidMessages == {<<RAID_MENTIONS, 5, 4, FALSE>>,
                 <<RAID_MENTIONS + 1, 5, 4, FALSE>>,
                 <<0, REPETITIVE_LENGTH + 10, 10, FALSE>>,
                 <<0, 20, 10, TRUE>>}

InitSuspect ==
    /\ InitClock
    /\ NukeIdle
    /\ punishment = "mute"
    /\ raid_action \in RaidActions
    /\ SpamIdle
    /\ RaidIdle

NextSuspect ==
  /\ UNCHANGED <<spamVars, nukeVars, wdVars>>
  /\
    \/ \E g \in SuspectGuilds, p \in Profiles, call \in Outcomes, db \in DbOutcomes :
            /\ joins[g] < MaxMembers
            /\ MemberJoin(g, p[1], p[2], p[3], p[4], call, db)
    \/ \E g \in SuspectGuilds, u \in 1 .. MaxMembers, m \in RaidMessages,
          call \in Outcomes, db \in DbOutcomes :
            RaidMessage(g, u, m[1], m[2], m[3], m[4], call, db)
    \/ raid_periodic_cleanup
    \/ \E d \in SuspectSteps : Tick(d)

SpecSuspect == InitSuspect /\ [][NextSuspect]_vars

\* the tenants the deletion events and the backup calls are drawn from
NukeGuilds == {1}

InitNuke ==
    /\ InitClock
    /\ punishment = "mute"
    /\ raid_action = "kick"
    /\ SpamIdle
    /\ RaidIdle
    /\ NukeIdle

\* the role the platform's role-deletion events remove: the newest one
NewestRole(roles) == CHOOSE m \in roles : \A r \in roles : r <= m

\* <<guild.me has view_audit_log, outcome of guild.audit_logs>>
AuditCases == {<<TRUE, "ok">>, <<FALSE, "ok">>, <<TRUE, "forbidden">>}
\* what the platform and the database do to an attack response:
\* <<member.ban, INSERT INTO mod_logs, SELECT server_backups, get_guild finds
\*   the guild, create_role calls that succeed, edit_role_positions>>
HandleCases == {<<"ok", "ok", "ok", TRUE, MaxRoles, "ok">>,
                <<"forbidden", "ok", "ok", TRUE, MaxRoles, "ok">>,
                <<"error", "ok", "ok", TRUE, MaxRoles, "ok">>,
                <<"ok", "error", "ok", TRUE, MaxRoles, "ok">>,
                <<"ok", "ok", "error", TRUE, MaxRoles, "ok">>,
                <<"ok", "ok", "ok", FALSE, MaxRoles, "ok">>,
                <<"ok", "ok", "ok", TRUE, 0, "ok">>,
                <<"ok", "ok", "ok", TRUE, MaxRoles, "error">>}

\* what the platform and the database do to a restore:
\* <<SELECT server_backups, get_guild finds the guild, create_role calls that
\*   succeed, edit_role_positions>>
RestoreCases == {<<"ok", TRUE, MaxRoles, "ok">>, <<"error", TRUE, MaxRoles, "ok">>,
                 <<"ok", FALSE, MaxRoles, "ok">>, <<"ok", TRUE, 0, "ok">>,
                 <<"ok", TRUE, MaxRoles, "error">>}

NextNuke ==
  /\ UNCHANGED <<spamVars, raidVars, wdVars>>
  /\
    \/ \E g \in NukeGuilds, actor \in Users, ac \in AuditCases, hc \in HandleCases :
            on_guild_channel_delete(g, actor, ac[1], ac[2], hc[1], hc[2],
                                    hc[3], hc[4], hc[5], hc[6])
    \/ \E g \in NukeGuilds, actor \in Users, ac \in AuditCases, hc \in HandleCases :
            on_guild_role_delete(g, NewestRole(guild_roles[g]), actor, ac[1], ac[2],
                                 hc[1], hc[2], hc[3], hc[4], hc[5], hc[6])
    \/ \E g \in NukeGuilds, db \in DbOutcomes : backup_guild(g, db)

SpecNuke == InitNuke /\ [][NextNuke]_vars

\* The backup store on its own: snapshots and direct restores of a guild
\* whose roles are deleted meanwhile, every call of the handlers succeeding
BackupSteps == {1}
HandleOk == <<"ok", "ok", "ok", TRUE, MaxRoles, "ok">>

NextBackup ==
  /\ UNCHANGED <<spamVars, raidVars, wdVars>>
  /\
    \/ \E g \in NukeGuilds, db \in DbOutcomes : backup_guild(g, db)
    \/ \E g \in NukeGuilds, rc \in RestoreCases :
            RestoreGuild(g, rc[1], rc[2], rc[3], rc[4])
    \/ \E g \in NukeGuilds, actor \in Users, ac \in AuditCases :
            on_guild_role_delete(g, NewestRole(guild_roles[g]), actor, ac[1], ac[2],
                                 HandleOk[1], HandleOk[2], HandleOk[3], HandleOk[4],
                                 HandleOk[5], HandleOk[6])
    \/ \E d \in BackupSteps : Tick(d)

SpecBackup == InitNuke /\ [][NextBackup]_vars

\* The nuke detector on member updates, with channel deletions that can
\* leave the guild damaged and a snapshot to restore from
NextEscalation ==
  /\ UNCHANGED <<spamVars, raidVars, wdVars>>
  /\
    \/ \E g \in NukeGuilds, actor \in Users, roles_changed \in BOOLEAN,
          dangerous \in BOOLEAN, ac \in AuditCases, hc \in HandleCases :
            on_member_update(g, actor, roles_changed, dangerous, ac[1], ac[2],
                             hc[1], hc[2], hc[3], hc[4], hc[5], hc[6])
    \/ \E g \in NukeGuilds :
            on_guild_channel_delete(g, 1, TRUE, "ok", HandleOk[1], HandleOk[2],
                                    HandleOk[3], HandleOk[4], HandleOk[5], HandleOk[6])
    \/ \E g \in NukeGuilds : backup_guild(g, "ok")

SpecEscalation == InitNuke /\ [][NextEscalation]_vars

\* The periodic backup sweep over all tenants, whose roles are deleted
\* meanwhile
SweepSteps == {1}

NextSweep ==
  /\ UNCHANGED <<spamVars, raidVars, wdVars>>
  /\
    \/ \E dbs \in [Guilds -> DbOutcomes] : backup_all_guilds(dbs)
    \/ \E g \in Guilds :
            on_guild_role_delete(g, NewestRole(guild_roles[g]), 1, TRUE, "ok",
                                 HandleOk[1], HandleOk[2], HandleOk[3], HandleOk[4],
                                 HandleOk[5], HandleOk[6])
    \/ \E d \in SweepSteps : Tick(d)

SpecSweep == InitNuke /\ [][NextSweep]_vars

\* The watchdog's monitoring loop; the event loop runs a task that can run,
\* so the steps of the outage handler are taken sooner or later
WatchdogSteps == {INCIDENT_COOLDOWN}

OutageProgress ==
    \/ \E network \in BOOLEAN : outage_recheck(network)
    \/ outage_backoff_done
    \/ \E close \in Outcomes : outage_escalate(close)

NextWatchdog ==
    \/ \E sample \in Samples, network \in BOOLEAN : monitor_system(sample, network)
    \/ \E network \in BOOLEAN : outage_recheck(network)
    \/ outage_backoff_done
    \/ \E close \in Outcomes : outage_escalate(close)
    \/ monitor_wake
    \/ \E d \in WatchdogSteps : Tick(d)

SpecWatchdog == InitNuke /\ [][NextWatchdog]_vars /\ WF_vars(OutageProgress)

\* Lockdowns of two tenants, one below and one above the configured
\* verification level, with guild.edit succeeding or failing
CleanProfile == <<SUSPICIOUS_AGE, TRUE, FALSE, 2>>

NextVerification ==
  /\ UNCHANGED <<spamVars, nukeVars, wdVars>>
  /\
    \/ \E g \in Guilds :
            MemberJoin(g, CleanProfile[1], CleanProfile[2], CleanProfile[3],
                       CleanProfile[4], "ok", "ok")
    \/ \E a \in activating, edit \in Outcomes : ActivateFinish(a, edit, "ok")
    \/ \E t \in release_tasks, edit \in Outcomes : disable_lockdown(t, edit)
    \/ TickToTimer

SpecVerification == InitNuke /\ [][NextVerification]_vars

\* The three counters of one tenant over deletions and escalations, the
\* channel deletions by two actors, with the ban succeeding or refused, a
\* snapshot taken before the first deletion, and hours passing
CounterSteps == {LOCKDOWN_SECONDS}
BanCases == {HandleOk, <<"forbidden", "ok", "ok", TRUE, MaxRoles, "ok">>}

NextCounters ==
  /\ UNCHANGED <<spamVars, raidVars, wdVars>>
  /\
    \/ \E g \in NukeGuilds, actor \in Users, hc \in BanCases :
            on_guild_channel_delete(g, actor, TRUE, "ok", hc[1], hc[2],
                                    hc[3], hc[4], hc[5], hc[6])
    \/ \E g \in NukeGuilds, hc \in BanCases :
            on_guild_role_delete(g, NewestRole(guild_roles[g]), 1, TRUE, "ok",
                                 hc[1], hc[2], hc[3], hc[4], hc[5], hc[6])
    \/ \E g \in NukeGuilds :
            on_member_update(g, 1, TRUE, TRUE, TRUE, "ok", HandleOk[1], HandleOk[2],
                             HandleOk[3], HandleOk[4], HandleOk[5], HandleOk[6])
    \/ \E g \in NukeGuilds : deletes = 0 /\ backup_guild(g, "ok")
    \/ \E d \in CounterSteps : Tick(d)

SpecCounters == InitNuke /\ [][NextCounters]_vars

\* The three detectors side by side on two tenants, every platform and
\* database call succeeding: tenant 2 can be driven into lockdown while
\* tenant 1 receives a few events of every kind
IsoProfiles == {<<SUSPICIOUS_AGE, TRUE, FALSE, 2>>, <<SUSPICIOUS_AGE, FALSE, FALSE, 2>>}
IsoMessages == {<<0, 5, 4, FALSE>>, <<RAID_MENTIONS + 1, 5, 4, FALSE>>}

\* events other than joins delivered so far
IsoEvents == msgs + raid_msgs + deletes + updates

InitIsolation == InitNuke

NextIsolation ==
    \/ /\ UNCHANGED <<raidVars, nukeVars, wdVars>>
       /\ \/ \E g \in Guilds, u \in SpamUsers, mentions \in {0, mention_threshold} :
                 /\ IsoEvents < MaxIsoEvents
                 /\ process_message(g, u, mentions, TRUE, "ok", "ok")
          \/ \E g \in Guilds, u \in Users : WarnSendDone(g, u, "ok")
          \/ \E g \in Guilds, u \in Users : MuteExpire(g, u, "ok", "ok")
    \/ /\ UNCHANGED <<spamVars, nukeVars, wdVars>>
       /\ \/ \E g \in Guilds, p \in IsoProfiles :
                 /\ g = 1 => joins[g] < MaxMembers
                 /\ g = 2 => ~is_suspicious_account(p[1], p[2], p[3], p[4])
                 /\ MemberJoin(g, p[1], p[2], p[3], p[4], "ok", "ok")
          \/ \E g \in Guilds, u \in 1 .. MaxMembers, m \in IsoMessages :
                 /\ IsoEvents < MaxIsoEvents
                 /\ RaidMessage(g, u, m[1], m[2], m[3], m[4], "ok", "ok")
          \/ \E a \in activating : ActivateFinish(a, "ok", "ok")
          \/ \E t \in release_tasks : disable_lockdown(t, "ok")
    \/ /\ UNCHANGED <<spamVars, raidVars, wdVars>>
       /\ IsoEvents < MaxIsoEvents
       /\ \/ \E g \in Guilds :
                 on_guild_channel_delete(g, 1, TRUE, "ok", HandleOk[1], HandleOk[2],
                                         HandleOk[3], HandleOk[4], HandleOk[5], HandleOk[6])
          \/ \E g \in Guilds :
                 on_guild_role_delete(g, NewestRole(guild_roles[g]), 1, TRUE, "ok",
                                      HandleOk[1], HandleOk[2], HandleOk[3], HandleOk[4],
                                      HandleOk[5], HandleOk[6])
          \/ \E g \in Guilds, dangerous \in BOOLEAN :
                 on_member_update(g, 1, TRUE, dangerous, TRUE, "ok", HandleOk[1],
                                  HandleOk[2], HandleOk[3], HandleOk[4], HandleOk[5],
                                  HandleOk[6])
    \/ TickToTimer

SpecIsolation == InitIsolation /\ [][NextIsolation]_vars

\* The lockdown of one tenant item by item: joins up to the threshold, the
\* activation over the invites and the tracked accounts it finds, the release
LockdownSteps == {1}

\* <<outcome of guild.edit, outcome of guild.invites()>>
ActivationCases == {<<"ok", "ok">>, <<"error", "ok">>, <<"ok", "forbidden">>}

\* outcomes of the invite.delete calls, one per outstanding invite
InviteCases == UNION {[1..n -> Outcomes] : n \in 0..MaxInvites}

\* the tracked accounts guild.get_member still finds
PresentCases(g) == {recent_joins[g], recent_joins[g] \ {1}}

\* the accounts whose member.kick raises
KickFailCases(g) == {{}, {2}, {joins[g]}, recent_joins[g]}

NextLockdown ==
  /\ UNCHANGED <<spamVars, nukeVars, wdVars>>
  /\
    \/ \E g \in RaidGuilds, p \in IsoProfiles : MemberJoin(g, p[1], p[2], p[3], p[4], "ok", "ok")
    \/ \E a \in activating, ac \in ActivationCases, io \in InviteCases :
         \E present \in PresentCases(a.guild), kick_fail \in KickFailCases(a.guild) :
            activate_lockdown_resume(a, ac[1], ac[2], io, present, kick_fail)
    \/ \E t \in release_tasks, edit \in Outcomes : disable_lockdown(t, edit)
    \/ \E d \in LockdownSteps : Tick(d)
    \/ TickToTimer

SpecLockdown == InitNuke /\ [][NextLockdown]_vars

(* ------------------------------ claims -------------------------------- *)
\* a message event of (g, u) was handled in this step
MessageStep(g, u) ==
    /\ msgs' = msgs + 1
    /\ spam_obs'.guild = g
    /\ spam_obs'.user = u

\* ... and _take_action was called for it (a Verdict)
VerdictStep(g, u) == MessageStep(g, u) /\ spam_obs'.response # "none"

JoinStep(g) == joins'[g] = joins[g] + 1

\* C2 (as claimed): a tenant is never LOCKED once 3600 seconds have passed
\* since the activation: by then the release has returned it to NORMAL.
C2_LockedReturnsToNormal ==
    \A g \in Guilds : g \in lockdown_mode => now - activated_at[g] <= 3600

\* C4 (as claimed): while a tenant is NORMAL, a join by an account that fails
\* the heuristic screen locks the tenant.
C4_ScreenLocksAsClaimed ==
    [][\A g \in Guilds :
         (JoinStep(g) /\ g \notin lockdown_mode /\ suspects' = suspects + 1)
            => g \in lockdown_mode']_vars

\* C4 (amended): while a tenant is NORMAL, a join by an account that fails the
\* heuristic screen, with fewer than join_threshold joins within time_window,
\* leaves the tenant NORMAL (no activation starts); the account enters the
\* suspect set and is handed to the remedial action.
C4_ScreenKeepsNormal ==
    [][\A g \in Guilds :
         (/\ JoinStep(g)
          /\ g \notin lockdown_mode
          /\ suspects' = suspects + 1
          /\ Len(join_feed'[g]) < 10)
            => /\ g \notin lockdown_mode'
               /\ UNCHANGED <<activations, activating>>
               /\ raid_obs' = RaidObs(g, joins'[g], "suspect")
               /\ joins'[g] \in suspected_raiders'[g]]_vars

\* C4 witness: a screened-out account joined a NORMAL tenant that stays NORMAL
C4_Witness ==
    \E g \in Guilds :
        /\ raid_obs = RaidObs(g, joins[g], "suspect")
        /\ suspects = 1
        /\ g \notin lockdown_mode
        /\ joins[g] \in suspected_raiders[g]
        /\ activations[g] = 0

\* C5: with join_threshold = 10 and time_window = 60, a join that meets the
\* tenant NORMAL leaves it NORMAL while fewer than 10 joins arrived within the
\* last 60 seconds, and the join that makes them 10 locks it and starts the
\* activation once; a join that meets the tenant LOCKED starts no activation.
C5_JoinThreshold ==
    [][\A g \in Guilds :
         JoinStep(g) =>
            IF g \in lockdown_mode
            THEN UNCHANGED <<lockdown_mode, activations, activating, activated_at>>
            ELSE /\ Len(join_feed'[g]) < 10 =>
                       /\ g \notin lockdown_mode'
                       /\ UNCHANGED <<activations, activating>>
                 /\ Len(join_feed'[g]) >= 10 =>
                       /\ g \in lockdown_mode'
                       /\ activations'[g] = activations[g] + 1
                       /\ Cardinality(activating') = Cardinality(activating) + 1]_vars

\* C5 witness: the 10th join locked the tenant, the 11th met it LOCKED, and
\* the activation ran once
C5_Witness ==
    \E g \in Guilds :
        /\ joins[g] = 11
        /\ g \in lockdown_mode
        /\ raid_obs = RaidObs(g, 11, "lockdown")
        /\ activations[g] = 1
\* a channel or role deletion event of guild g was handled in this step
DeleteStep(g) == deletes' = deletes + 1 /\ nuke_obs'.guild = g

\* C7: with max_channel_deletes = 3, the 1st, 2nd and 3rd channel deletions
\* attributed to an actor produce no Verdict and the 4th produces one (one ban
\* row at most, one restore at most); the same for role deletions against
\* max_role_deletes.  An event charges only the counter of its kind and actor.
C7_ExceedsThreshold ==
    [][\A g \in Guilds, u \in Users :
         (DeleteStep(g) /\ nuke_obs'.actor = u) =>
            /\ nuke_obs'.kind = "channel" =>
                  /\ channel_deletions' = Bump(channel_deletions, g, u)
                  /\ UNCHANGED role_deletions
                  /\ channel_deletions'[g][u] \in 1..3 => ~nuke_obs'.verdict
                  /\ channel_deletions'[g][u] = 4 => nuke_obs'.verdict
            /\ nuke_obs'.kind = "role" =>
                  /\ role_deletions' = Bump(role_deletions, g, u)
                  /\ UNCHANGED channel_deletions
                  /\ role_deletions'[g][u] \in 1..3 => ~nuke_obs'.verdict
                  /\ role_deletions'[g][u] = 4 => nuke_obs'.verdict
            /\ ~nuke_obs'.verdict => UNCHANGED <<mod_logs, restores>>
            /\ BagCardinality(mod_logs') <= BagCardinality(mod_logs) + 1
            /\ restores' <= restores + 1]_vars

\* C7 witness: the 4th channel deletion attributed to an actor got its Verdict
C7_Witness ==
    \E g \in Guilds, u \in Users :
        /\ nuke_obs.guild = g
        /\ nuke_obs.kind = "channel"
        /\ nuke_obs.actor = u
        /\ nuke_obs.verdict
        /\ channel_deletions[g][u] = 4

\* C3 (as claimed): a restore of a tenant whose roles are those of its
\* snapshot issues no role-creation call.
C3_RoundTripNoCreate ==
    [][\A g \in Guilds :
         (/\ restores' = restores + 1
          /\ deletes' = deletes
          /\ restore_obs'.guild = g
          /\ \E b \in server_backups :
                /\ b.server_id = g
                /\ {k[2] : k \in b.roles} = guild_roles[g])
            => restore_obs'.creates = 0]_vars

\* C8 (as claimed): a kick or ban issued against a spammer appends one row to
\* moderation_logs whatever the outcome of the platform call (no INSERT failed).
C8_AlwaysLogs ==
    [][\A g \in Guilds, u \in Users :
         (/\ VerdictStep(g, u)
          /\ punishment \in {"kick", "ban"}
          /\ spam_obs'.response = "call"
          /\ spam_obs'.db = "ok")
            => mod_logs' = mod_logs (+) SetToBag({<<g, u, SpamLogAction(punishment)>>})]_vars

\* C9 (as claimed): a nuke Verdict for a tenant left with fewer than 3 channels
\* or fewer than 3 roles calls restore_guild, whatever became of the ban and
\* of the log write.
C9_RestoreWhateverFailed ==
    [][\A g \in Guilds :
         (/\ DeleteStep(g)
          /\ nuke_obs'.verdict
          /\ \/ guild_channels'[g] < 3
             \/ Cardinality(guild_roles[g]) - (IF nuke_obs'.kind = "role" THEN 1 ELSE 0) < 3)
            => /\ nuke_obs'.restore
               /\ restores' = restores + 1]_vars

\* C10 (as claimed): the rows server_backups holds for a tenant are as many as
\* the snapshots that succeeded for it.
C10_AppendOnly ==
    \A g \in Guilds :
        Cardinality({b \in server_backups : b.server_id = g}) = snapshots_ok[g]

C12_RoleDeletionAttribution ==
    [][\A g \in Guilds :
         (DeleteStep(g) /\ nuke_obs'.kind = "role" /\ nuke_obs'.access)
            => nuke_obs'.actor = audit_role_delete'[g]]_vars

\* C13: a tenant that is not LOCKED has the verification level it had before
\* its activations: the scheduled release puts the level back before it
\* marks the tenant NORMAL, and never marks it NORMAL with the raised level
\* in place (no one else changes the level here).
C13_ReleaseRestoresLevel ==
    \A g \in Guilds :
        g \notin lockdown_mode => verification_level[g] = InitialLevel(g)

\* C13 witness: a tenant was locked, its level raised, and the release, 3600
\* seconds later, returned it to NORMAL at the earlier level
C13_Witness ==
    \E g \in Guilds :
        /\ activations[g] = 1
        /\ g \notin lockdown_mode
        /\ now - activated_at[g] >= 3600
        /\ InitialLevel(g) < config_verification_level
        /\ verification_level[g] = InitialLevel(g)

\* C14: at every rate check the list that is counted holds only timestamps
\* at most time_window seconds old, and no more of them than message events
\* arrived within the window, whatever records and sweeps came before.
C14_WindowCount ==
    [][\A g \in Guilds, u \in Users :
         MessageStep(g, u) =>
            LET counted == message_history'[g][u]
            IN /\ \A i \in 1..Len(counted) : now' - counted[i] <= 10
               /\ Len(counted) <= Len(recent_feed'[g][u])
               /\ Len(counted) >= 1]_vars

\* C14, for the join counter: at every join that is counted, the count that
\* is compared with join_threshold is the number of join events of the last
\* join_window seconds that met the guild unlocked.
C14_JoinWindowCount ==
    [][\A g \in Guilds :
         (JoinStep(g) /\ g \notin lockdown_mode) =>
            /\ get_recent_joins(join_times'[g], now') = Len(join_feed'[g])
            /\ \A i \in 1..Len(join_feed'[g]) : now' - join_feed'[g][i] <= 60]_vars

\* C14 witness: a message counted alone, the earlier ones of the subject
\* having left the window
C14_Witness ==
    \E g \in Guilds, u \in Users :
        /\ msgs >= 3
        /\ spam_obs.guild = g /\ spam_obs.user = u
        /\ message_history[g][u] = <<now>>
        /\ now - StartTime > 10

\* C15: the activation side effects start only on a NORMAL->LOCKED
\* transition; a join handled while the tenant is LOCKED, an activation still
\* awaiting its platform calls included, starts nothing; so a tenant has at
\* most one activation in progress or one release pending.
C15_ActivationOnce ==
    [][\A g \in Guilds :
         /\ activations'[g] # activations[g] =>
               /\ activations'[g] = activations[g] + 1
               /\ g \notin lockdown_mode
               /\ g \in lockdown_mode'
         /\ (JoinStep(g) /\ g \in lockdown_mode) =>
               UNCHANGED <<activations, activating, release_tasks, verification_level,
                           lockdown_mode>>
         /\ Cardinality({a \in activating' : a.guild = g})
              + Cardinality({t \in release_tasks' : t.guild = g}) <= 1]_vars

\* C15 witness: a join was handled while the activation was still awaiting
\* guild.edit, and the activation has run once
C15_Witness ==
    \E g \in Guilds :
        /\ \E a \in activating : a.guild = g
        /\ raid_obs = RaidObs(g, joins[g], "lockdown")
        /\ activations[g] = 1

\* a message event was handled by the raid detector in this step
RaidMessageStep == raid_msgs' = raid_msgs + 1

\* C16 (as claimed): a message event whose author is in the tenant's suspect
\* set causes the configured remedial action (kick, ban, timeout or direct
\* warning) to be attempted against the author.
C16_SuspectEventsActed ==
    [][\A g \in Guilds :
         (/\ RaidMessageStep
          /\ raid_obs'.guild = g
          /\ raid_obs'.user \in suspected_raiders[g])
         => raid_obs'.attempted]_vars

\* C17 (as claimed): every joining account that fails the heuristic screen is
\* in its tenant's suspect set once its join event has been processed,
\* whether the tenant was NORMAL or LOCKED and whether or not the join
\* crossed the join threshold.
C17_ScreenedJoinSuspected ==
    [][\A g \in Guilds :
         (JoinStep(g) /\ suspects' = suspects + 1)
         => joins'[g] \in suspected_raiders'[g]]_vars

\* C18 (as claimed): right after a pass of the raid detector's sweep, no
\* join record and no suspect record older than 24 hours remains, and no
\* suspect record younger than 24 hours has been removed.
C18_SweepPrunesByAge ==
    swept_at = now =>
        \A g \in Guilds :
            /\ \A u \in DOMAIN join_times[g] : now - join_times[g][u] <= 24 * 3600
            /\ \A u \in DOMAIN suspect_since[g] :
                  /\ now - suspect_since[g][u] > 24 * 3600 => u \notin suspected_raiders[g]
                  /\ now - suspect_since[g][u] < 24 * 3600 => u \in suspected_raiders[g]

\* an event of tenant a (message, join, channel or role deletion, member
\* update) was handled in this step, or a handler of one resumed
EventOf(a) ==
    \/ \E u \in Users : MessageStep(a, u)
    \/ JoinStep(a)
    \/ RaidMessageStep /\ raid_obs'.guild = a
    \/ DeleteStep(a)
    \/ updates' = updates + 1 /\ nuke_obs'.guild = a
    \/ \E u \in Users : warn_inflight'[a][u] < warn_inflight[a][u]
    \/ \E u \in Users : Len(mute_tasks'[a][u]) < Len(mute_tasks[a][u])
    \/ \E x \in activating \ activating' : x.guild = a
    \/ \E t \in release_tasks \ release_tasks' : t.guild = a

\* every piece of tenant b's state is left as it was
Untouched(b) ==
    /\ message_history'[b] = message_history[b]
    /\ repeat_offenders'[b] = repeat_offenders[b]
    /\ user_last_warn'[b] = user_last_warn[b]
    /\ warn_inflight'[b] = warn_inflight[b]
    /\ mute_tasks'[b] = mute_tasks[b]
    /\ join_times'[b] = join_times[b]
    /\ recent_joins'[b] = recent_joins[b]
    /\ suspected_raiders'[b] = suspected_raiders[b]
    /\ (b \in lockdown_mode') = (b \in lockdown_mode)
    /\ {x \in activating' : x.guild = b} = {x \in activating : x.guild = b}
    /\ {t \in release_tasks' : t.guild = b} = {t \in release_tasks : t.guild = b}
    /\ verification_level'[b] = verification_level[b]
    /\ channel_deletions'[b] = channel_deletions[b]
    /\ role_deletions'[b] = role_deletions[b]
    /\ admin_changes'[b] = admin_changes[b]
    /\ {row \in BagToSet(mod_logs') : row[1] = b} = {row \in BagToSet(mod_logs) : row[1] = b}
    /\ \A row \in BagToSet(mod_logs) :
          row[1] = b => CopiesIn(row, mod_logs') = CopiesIn(row, mod_logs)

\* C19: handling an event (message, join, channel or role deletion, member
\* update) of tenant A leaves tenant B's state unchanged for B # A: message
\* and join windows, deletion and escalation counters, warning cooldowns,
\* repeat-offender counters, suspect set and lockdown mode.
C19_TenantIsolation ==
    [][\A a \in Guilds : \A b \in Guilds \ {a} : EventOf(a) => Untouched(b)]_vars

\* C19 witness: tenant 2 is LOCKED and has an escalation on its counters, and
\* the latest join and the latest deletion handled were tenant 1's
C19_Witness ==
    /\ 2 \in lockdown_mode
    /\ admin_changes[2][1] = 1
    /\ raid_obs = RaidObs(1, joins[1], "suspect")
    /\ nuke_obs.guild = 1 /\ nuke_obs.actor = 1 /\ channel_deletions[1][1] = 1

\* C20 (as claimed): when an event of a tenant is handled, every state
\* change and remedial action caused by the tenant's earlier events has been
\* applied: no earlier handler is still waiting to record its warning, or to
\* make the repeat-offender increment and the log entry that follow a timed
\* mute.
C20_ArrivalOrder ==
    [][\A g \in Guilds, u \in Users :
         MessageStep(g, u) =>
            \A v \in Users : warn_inflight[g][v] = 0 /\ mute_tasks[g][v] = <<>>]_vars

\* C21: restore_guild returns failure, and issues no create_role and no
\* role.edit call, when the tenant has no snapshot or bot.get_guild does not
\* know it; a call that fails stops at the failing platform call; and one
\* trigger makes one restore attempt, never a second.
C21_RestoreFailureReported ==
    [][restores' # restores =>
         /\ restores' = restores + 1
         /\ (\/ LatestBackup(server_backups, restore_obs'.guild) = {}
             \/ ~restore_obs'.reachable)
              => /\ ~restore_obs'.result
                 /\ restore_obs'.creates = 0
                 /\ restore_obs'.edits = 0
         /\ ~restore_obs'.result =>
              /\ restore_obs'.edits <= 1
              /\ restore_obs'.creates > next_role_id' - next_role_id
                   => restore_obs'.edits = 0]_vars

\* C21 witness: a restore of a tenant that has a snapshot found the tenant
\* unreachable and reported failure
C21_Witness ==
    /\ restores > 0
    /\ ~restore_obs.reachable
    /\ ~restore_obs.result
    /\ LatestBackup(server_backups, restore_obs.guild) # {}

\* the timestamps of the snapshots ever persisted for tenant g
PersistedTimes(g) == {p[2] : p \in {q \in persisted : q[1] = g}}

\* C22: a restore that restores from a snapshot uses the one with the maximum
\* taken_at among all snapshots ever persisted for the tenant, after any
\* sequence of successful and failed snapshot operations; a restore that
\* reports success has used one.
C22_RestoreUsesNewest ==
    [][restores' # restores =>
         /\ restore_obs'.result => restore_obs'.taken_at # 0
         /\ restore_obs'.taken_at # 0 =>
              /\ restore_obs'.taken_at \in PersistedTimes(restore_obs'.guild)
              /\ \A t \in PersistedTimes(restore_obs'.guild) :
                    t <= restore_obs'.taken_at]_vars

\* C22 witness: two snapshots of a tenant were persisted at different times, a
\* later snapshot operation failed, and a restore succeeded from the newer one
C22_Witness ==
    /\ restore_obs.result
    /\ Cardinality(PersistedTimes(restore_obs.guild)) = 2
    /\ restore_obs.taken_at > StartTime
    /\ backups > snapshots_ok[restore_obs.guild]

\* a member update event of guild g was handled in this step
UpdateStep(g) == updates' = updates + 1 /\ nuke_obs'.guild = g

\* C23: for every (tenant, actor), the first member-role update attributed to
\* the actor that grants a role carrying the administrator permission
\* produces no Verdict and every later one produces a Verdict; an update that
\* adds no administrator role, or that is attributed to nobody, leaves the
\* escalation counters as they were and produces no Verdict.
C23_EscalationTolerance ==
    [][\A g \in Guilds :
         UpdateStep(g) =>
            IF nuke_obs'.kind = "escalation" /\ nuke_obs'.actor # 0
            THEN /\ admin_changes' = Bump(admin_changes, g, nuke_obs'.actor)
                 /\ nuke_obs'.verdict = (admin_changes[g][nuke_obs'.actor] >= 1)
            ELSE /\ UNCHANGED admin_changes
                 /\ ~nuke_obs'.verdict]_vars

\* C23 witness: three member updates were handled, one of them counting for
\* nothing, and the second escalation attributed to an actor has just
\* produced a Verdict
C23_Witness ==
    \E g \in Guilds, u \in Users :
        /\ nuke_obs = NukeObs(g, "escalation", TRUE, u, TRUE, FALSE)
        /\ admin_changes[g][u] = 2
        /\ updates = 3

\* the activation of guild g resumed after guild.edit in this step
ActivationStep(g) == \E a \in activating \ activating' : a.guild = g

RowsOf(table, g) == {r \in table : r.server_id = g}

\* C25: in a backup sweep a snapshot is attempted for every tenant, whichever
\* of them fail: each tenant whose snapshot succeeded has its row written at
\* the time of the sweep, and each tenant whose snapshot failed is reported
\* as failed and keeps the rows it had.
C25_SweepIsolatesFailures ==
    [][backups' # backups =>
         /\ sweep_obs'.attempted = Guilds
         /\ \A g \in Guilds :
               IF g \in sweep_obs'.succeeded
               THEN /\ \A r \in RowsOf(server_backups', g) : r.timestamp = now
                    /\ RowsOf(server_backups', g) # {}
                    /\ snapshots_ok'[g] = snapshots_ok[g] + 1
               ELSE /\ RowsOf(server_backups', g) = RowsOf(server_backups, g)
                    /\ snapshots_ok'[g] = snapshots_ok[g]]_vars

\* C25 witness: in the latest sweep the snapshot of tenant 1 failed and the
\* snapshot of tenant 2, which comes after it, was taken
C25_Witness ==
    /\ sweep_obs = SweepObs(Guilds, {2})
    /\ \E r \in RowsOf(server_backups, 2) : r.timestamp = now
    /\ backups >= 2

\* the outage handler is between its entry and its return
InOutage == wd_pc \in {"outage", "backoff"}

\* C26: an outage makes at most 3 re-checks; bot.close() is called only after
\* 3 re-checks that all failed; a re-check that passes takes the watchdog back
\* to its monitoring loop with the bot open as it was; bot.close() is called
\* at most once; and the outage handler always returns.
C26_BoundedRetries ==
    /\ [](outage_obs.rechecks <= OUTAGE_RETRIES /\ outage_obs.closes <= 1)
    /\ [][/\ outage_obs'.closes # outage_obs.closes =>
                /\ outage_obs.rechecks = OUTAGE_RETRIES
                /\ outage_obs.failed = OUTAGE_RETRIES
          /\ (outage_obs'.rechecks = outage_obs.rechecks + 1
                /\ outage_obs'.failed = outage_obs.failed) =>
                /\ wd_pc' = "sleep"
                /\ closed' = closed
                /\ outage_obs'.closes = outage_obs.closes]_vars
    /\ (InOutage ~> ~InOutage)

\* C26 witness: a second outage went through its 3 failing re-checks with the
\* bot closed by the first one, and the handler has returned
C26_Witness ==
    /\ outage_obs = OutageObs(OUTAGE_RETRIES, OUTAGE_RETRIES, 1)
    /\ closed
    /\ wd_pc = "monitor"
    /\ cycles = 2
    /\ retries = OUTAGE_RETRIES

\* C27 (as claimed): for every (tenant, subject) the repeat-offender counter
\* grows by exactly one in a step that carries out a punishment of the subject
\* (add_roles, kick or ban returning successfully) and is unchanged by every
\* other step, so that it always equals the punishments carried out.
C27_CounterCountsPunishments ==
    [][\A g \in Guilds, u \in Users :
         repeat_offenders'[g][u] =
            repeat_offenders[g][u]
              + (IF /\ MessageStep(g, u)
                    /\ spam_obs'.response = "call"
                    /\ spam_obs'.call = "ok"
                 THEN 1 ELSE 0)]_vars

\* C28 (as claimed): a join event of a tenant that is LOCKED is handed to the
\* remedial action without the join being tracked or screened, and the
\* configured action is attempted against the joining account.
C28_LockedJoinActedOn ==
    [][\A g \in Guilds :
         (JoinStep(g) /\ g \in lockdown_mode) =>
            /\ raid_obs'.response = "lockdown"
            /\ raid_obs'.user = joins'[g]
            /\ join_times'[g] = join_times[g]
            /\ suspected_raiders'[g] = suspected_raiders[g]
            /\ raid_obs'.attempted]_vars

\* C29 (as claimed): a message without a mention flood gets a Verdict only
\* when more than message_threshold of the subject's messages (this one
\* included) arrived within the last time_window seconds.
C29_RateCheckStrict ==
    [][\A g \in Guilds, u \in Users :
         (MessageStep(g, u) /\ floods' = floods /\ spam_obs'.response # "none")
            => Len(recent_feed'[g][u]) > message_threshold]_vars

\* C30: each message event gets at most one Verdict, also when it meets both
\* the rate check and the mention check, and then it is the rate check's; the
\* handler acts exactly when a Verdict was issued; a message that does not
\* meet the rate check gets the mention Verdict exactly when it carries
\* mention_threshold mentions or more; no Verdict is ever for repeated content.
C30_OneVerdictPerMessage ==
    [][\A g \in Guilds, u \in Users :
         MessageStep(g, u) =>
            LET reasons == verdict_obs'.reasons
                rate == Len(recent_feed'[g][u]) >= message_threshold
                flood == verdict_obs'.mentions >= mention_threshold
            IN /\ Len(reasons) <= 1
               /\ (reasons # <<>>) = (spam_obs'.response # "none")
               /\ rate => reasons = <<"Excessive message frequency">>
               /\ ~rate => (reasons = <<"Mention spam">>) = flood
               /\ ~rate /\ ~flood => reasons = <<>>
               /\ reasons # <<"Repeated message content">>]_vars

\* C30 witness: the latest message met the rate check and the mention check
\* and got the one Verdict of the rate check, and the handler acted on it
C30_Witness ==
    \E g \in Guilds, u \in Users :
        /\ spam_obs.guild = g /\ spam_obs.user = u
        /\ Len(recent_feed[g][u]) >= message_threshold
        /\ verdict_obs = VerdictObs(mention_threshold, <<"Excessive message frequency">>)
        /\ spam_obs.response # "none"
        /\ Len(message_history[g][u]) = Len(recent_feed[g][u])

\* _periodic_cleanup ran in this step
CleanupStep == cleanup_obs' # cleanup_obs \/ (msgs' = msgs /\ message_history' # message_history)

\* C31: a pass of the message-history sweep leaves every timestamp that is at
\* most time_window old where it was, and whenever a message is handled,
\* before or after any number of passes, the message is recorded and the list
\* the rate check counts is exactly the subject's arrivals of the last
\* time_window seconds, as it would be had no pass run.
C31_SweepKeepsWindow ==
    [][\A g \in Guilds, u \in Users :
         /\ CleanupStep =>
               PruneWindow(message_history'[g][u], now, time_window)
                  = PruneWindow(message_history[g][u], now, time_window)
         /\ MessageStep(g, u) =>
               /\ message_history'[g][u] = recent_feed'[g][u]
               /\ message_history'[g][u][Len(message_history'[g][u])] = now
               /\ check_message_frequency(message_history'[g][u])
                    = (Len(recent_feed'[g][u]) >= message_threshold)]_vars

\* C31 witness: an earlier pass of the sweep removed timestamps, the subject's
\* entry among them, and a message of the subject handled after it was
\* recorded and counted
C31_Witness ==
    \E g \in Guilds, u \in Users :
        /\ cleanup_obs.removed > 0
        /\ cleanup_obs.at < now
        /\ spam_obs.guild = g /\ spam_obs.user = u
        /\ message_history[g][u] = <<now>>
        /\ recent_feed[g][u] = <<now>>

\* C32: when the guild.edit of an activation succeeds, the tenant's
\* verification level becomes the larger of the level it had and the
\* configured one, and while the release timer of that lockdown is pending
\* the level is that maximum: at least the configured level and never below
\* the level before the lockdown.
C32_LockdownNeverLowers ==
    /\ [][\A g \in Guilds :
            (ActivationStep(g) /\ lockdown_obs'.entered) =>
               verification_level'[g] =
                  (IF verification_level[g] >= config_verification_level
                   THEN verification_level[g] ELSE config_verification_level)]_vars
    /\ [](\A t \in release_tasks :
            /\ verification_level[t.guild] >= config_verification_level
            /\ verification_level[t.guild] >= t.original
            /\ verification_level[t.guild] \in {t.original, config_verification_level})

\* C32 witness: both tenants are locked with their release timers pending,
\* tenant 1 raised from 0 to the configured level and tenant 2 left at its
\* higher level
C32_Witness ==
    /\ {t.guild : t \in release_tasks} = Guilds
    /\ Guilds \subseteq lockdown_mode
    /\ verification_level[1] = config_verification_level
    /\ InitialLevel(1) < config_verification_level
    /\ verification_level[2] = InitialLevel(2)
    /\ InitialLevel(2) > config_verification_level

\* C33 (as claimed): a spam warning is sent to a subject only when no other
\* warning to that subject is being sent and none was sent during the last
\* 300 seconds, however the handlers of the subject's messages interleave.
C33_OneWarningPerCooldown ==
    [][\A g \in Guilds, u \in Users :
         (MessageStep(g, u) /\ spam_obs'.response = "warn") =>
            /\ warn_inflight[g][u] = 0
            /\ user_last_warn[g][u] = 0 \/ now - user_last_warn[g][u] > WARN_COOLDOWN]_vars

\* C34 (as claimed): when the timer of a timed mute removes the mute role from
\* a subject, no later mute of that subject is still running: every other
\* pending timer of the subject, set duration seconds after its mute was
\* applied, is due as well.
C34_MuteNotCutShort ==
    [][\A g \in Guilds, u \in Users :
         (/\ mute_tasks[g][u] # <<>>
          /\ mute_tasks'[g][u] = Tail(mute_tasks[g][u])
          /\ repeat_offenders'[g][u] = repeat_offenders[g][u] + 1) =>
            \A i \in DOMAIN mute_tasks'[g][u] : mute_tasks'[g][u][i] <= now]_vars

\* C35 (as claimed): every tenant has at most one release timer pending, and
\* has one pending exactly while it is LOCKED.
C35_TimersMatchLockdown ==
    \A g \in Guilds :
        /\ Cardinality({t \in release_tasks : t.guild = g}) <= 1
        /\ (\E t \in release_tasks : t.guild = g) <=> g \in lockdown_mode

\* C36: the channel-deletion, role-deletion and escalation counters of every
\* (tenant, actor) never go down, whatever time passes; an attributed channel
\* deletion adds one to the channel counter only and an attributed role
\* deletion one to the role counter only; a deletion gets a Verdict exactly
\* when the counter of its kind has passed its threshold with it, so every
\* deletion after that gets one too, and an actor with 3 channel deletions
\* and 3 role deletions has got none.
C36_CountersNeverReset ==
    [][\A g \in Guilds, u \in Users :
         /\ channel_deletions'[g][u] >= channel_deletions[g][u]
         /\ role_deletions'[g][u] >= role_deletions[g][u]
         /\ admin_changes'[g][u] >= admin_changes[g][u]
         /\ (deletes' = deletes /\ updates' = updates) =>
               UNCHANGED <<channel_deletions, role_deletions, admin_changes>>
         /\ (DeleteStep(g) /\ nuke_obs'.actor = u /\ nuke_obs'.kind = "channel") =>
               /\ channel_deletions'[g][u] = channel_deletions[g][u] + 1
               /\ UNCHANGED <<role_deletions, admin_changes>>
               /\ nuke_obs'.verdict = (channel_deletions'[g][u] > max_channel_deletes)
               /\ channel_deletions[g][u] > max_channel_deletes => nuke_obs'.verdict
         /\ (DeleteStep(g) /\ nuke_obs'.actor = u /\ nuke_obs'.kind = "role") =>
               /\ role_deletions'[g][u] = role_deletions[g][u] + 1
               /\ UNCHANGED <<channel_deletions, admin_changes>>
               /\ nuke_obs'.verdict = (role_deletions'[g][u] > max_role_deletes)
               /\ role_deletions[g][u] > max_role_deletes => nuke_obs'.verdict
         /\ (UpdateStep(g) /\ nuke_obs'.actor = u /\ nuke_obs'.kind = "escalation") =>
               /\ admin_changes'[g][u] = admin_changes[g][u] + 1
               /\ UNCHANGED <<channel_deletions, role_deletions>>
               /\ admin_changes[g][u] > ESCALATION_TOLERANCE => nuke_obs'.verdict]_vars

\* C36 witness: an hour or more after start-up an actor stands at 3 channel
\* deletions and 3 role deletions, and no Verdict was ever issued
C36_Witness ==
    \E g \in Guilds, u \in Users :
        /\ channel_deletions[g][u] = max_channel_deletes
        /\ role_deletions[g][u] = max_role_deletes
        /\ deletes = max_channel_deletes + max_role_deletes
        /\ ~nuke_obs.verdict
        /\ mod_logs = EmptyBag
        /\ restores = 0
        /\ now >= StartTime + LOCKDOWN_SECONDS
====
